---- MODULE Spec2Model ----
(***************************************************************************)
(* Model of the VGLite command-buffer log decoder                          *)
(* (scripts/vg_lite_cmdbuf_parser): VGLiteCommandParser.parse_log, the     *)
(* per-word decoder _decode_command / _decode_state_data, the image-draw   *)
(* tracker and the path interpreter VGLitePathParser.                      *)
(*                                                                         *)
(* Representation choices                                                  *)
(*  - a 32-bit word is the record [hi, lo] of its two 16-bit halves, so    *)
(*    that every word (0x80000000 and above included) is representable;    *)
(*    each mask/shift of the source is computed on the halves.             *)
(*  - a formatted string (description, detail, reason) is the tuple of its *)
(*    literal tag and of the values formatted into it.                     *)
(*  - a path coordinate is <<"i", v>> for an integer value v and           *)
(*    <<"f", hi, lo>> for a non-zero IEEE-754 single given by its bits;     *)
(*    both float zeros are <<"i", 0>> (0.0 == -0.0 == float(0)).           *)
(*  - Python objects shared between lists (ParsedCommand) live in `heap`   *)
(*    and the lists hold their indices.                                    *)
(***************************************************************************)
EXTENDS Integers, Sequences, FiniteSets, TLC

\* ------------------------------------------------------------------ bounds
\* number of input lines of one log text
MaxLines == 4

\* number of input lines of one log text, in the word-decoding scenario
MaxDecodeLines == 2

\* the longest sequence of path segments given to the path interpreter
MaxSegments == 2

\* the largest snapshot, in bytes, of the memory-read scenarios
MaxCoreBytes == 6

\* the largest number of LOAD segments of the memory-read scenarios
MaxLoadSegments == 2

\* ------------------------------------------------------------------- words
W(h, l) == [hi |-> h, lo |-> l]

\* Python's None, where a record (an object or a dict) is expected
None == [none |-> TRUE]

\* Python's None, where a tuple is expected
NoTuple == <<>>

\* Python's None, where a string is expected
NoString == ""

\* cmd_word & 0xF0000000, as the top nibble
Opcode(w) == w.hi \div 4096

\* cmd_word & 0x0FFFFFFF
Low28(w) == (w.hi % 4096) * 65536 + w.lo

\* cmd_word & 0x00FFFFFF
Low24(w) == (w.hi % 256) * 65536 + w.lo

\* bit n (0..31) of a word
Bit(w, n) == IF n < 16 THEN (w.lo \div (2 ^ n)) % 2 ELSE (w.hi \div (2 ^ (n - 16))) % 2

\* unsigned comparison of two words
WordLess(a, b) == a.hi < b.hi \/ (a.hi = b.hi /\ a.lo < b.lo)

\* ------------------------------------------------------------ constants.py
\* CALL entered as 0x50000000
CommandType_CallAt5 ==
  ("END" :> 0) @@ ("SEMAPHORE" :> 1) @@ ("STALL" :> 2) @@ ("STATE" :> 3) @@
  ("DATA" :> 4) @@ ("CALL" :> 5) @@ ("RETURN" :> 7) @@ ("NOP" :> 8)

\* the opcode class values, as the top nibble of cmd_word
CommandType ==
  ("END" :> 0) @@ ("SEMAPHORE" :> 1) @@ ("STALL" :> 2) @@ ("STATE" :> 3) @@
  ("DATA" :> 4) @@ ("CALL" :> 6) @@ ("RETURN" :> 7) @@ ("NOP" :> 8)

\* 0x0A00 = 2560.  Later duplicate keys of the dict literal win
\* (0x0A18..0x0A1A, 0x0A1C..0x0A1E are the Blit step names).
REGISTER_MAP ==
  (2560 :> "VgControl") @@ (2561 :> "VgTargetAddress") @@ (2562 :> "VgColor") @@
  (2563 :> "VgClearColor") @@ (2564 :> "VgImageAddress") @@ (2565 :> "VgImageConfig") @@
  (2566 :> "VgImageStride") @@ (2567 :> "VgImageUAddress") @@ (2568 :> "VgImageVAddress") @@
  (2569 :> "VgImageUVStride") @@ (2570 :> "VgImageSize") @@ (2571 :> "VgPaintColor") @@
  (2572 :> "VgPatternAddress") @@ (2573 :> "VgPatternConfig") @@ (2574 :> "VgPatternStride") @@
  (2575 :> "VgPatternSize") @@
  (2576 :> "VgTargetStride") @@ (2577 :> "VgTargetWidth") @@ (2578 :> "VgTargetHeight") @@
  (2579 :> "VgTargetConfig") @@ (2580 :> "VgColorKey") @@ (2581 :> "VgScissorLeft") @@
  (2582 :> "VgScissorTop") @@ (2583 :> "VgScissorRight") @@ (2584 :> "VgBlitCStepX") @@
  (2585 :> "VgBlitCStepY") @@ (2586 :> "VgBlitCStepZ") @@ (2587 :> "VgTessControl") @@
  (2588 :> "VgBlitXStepX") @@ (2589 :> "VgBlitXStepY") @@ (2590 :> "VgBlitXStepZ") @@
  (2591 :> "VgDstAlphaFactor") @@
  (2592 :> "VgBlitYStepX") @@ (2593 :> "VgBlitYStepY") @@ (2594 :> "VgBlitYStepZ") @@
  (2597 :> "VgSourceConfig") @@ (2599 :> "VgSourceClip") @@ (2601 :> "VgSourceAddress") @@
  (2603 :> "VgSourceStride") @@ (2605 :> "VgSourceOrigin") @@ (2607 :> "VgSourceSize") @@
  (2608 :> "VgImageMatrix0") @@ (2609 :> "VgImageMatrix1") @@ (2610 :> "VgImageMatrix2") @@
  (2611 :> "VgImageMatrix3") @@ (2612 :> "VgPathControl") @@ (2613 :> "VgImageMatrix4") @@
  (2614 :> "VgImageMatrix5") @@ (2615 :> "VgImageMatrix6") @@ (2616 :> "VgImageMatrix7") @@
  (2617 :> "VgTessWindow") @@ (2618 :> "VgTessWindowSize") @@ (2619 :> "VgPathScale") @@
  (2620 :> "VgPathBias") @@ (2621 :> "VgTessSize") @@
  (2624 :> "VgPathMatrix0") @@ (2625 :> "VgPathMatrix1") @@ (2626 :> "VgPathMatrix2") @@
  (2627 :> "VgPathMatrix3") @@ (2628 :> "VgPathMatrix4") @@ (2629 :> "VgPathMatrix5") @@
  (2630 :> "VgClutAddress") @@ (2631 :> "VgClutConfig") @@
  (2640 :> "VgColorTransformLow") @@ (2641 :> "VgColorTransformHigh") @@
  (2642 :> "VgColorTransformScale") @@ (2643 :> "VgColorTransformBias") @@
  (2652 :> "VgImageAlphaAddress") @@ (2653 :> "VgImageAlphaStride") @@
  (2704 :> "VgClutData0") @@ (2705 :> "VgClutData1") @@ (2706 :> "VgClutData2") @@
  (2707 :> "VgClutData3") @@ (2708 :> "VgClutData4") @@ (2709 :> "VgClutData5") @@
  (2710 :> "VgClutData6") @@ (2711 :> "VgClutData7") @@
  (2760 :> "VgConfig") @@ (2763 :> "VgMaskStride") @@ (2764 :> "VgMaskConfig") @@
  (2765 :> "VgPathTransX") @@ (2766 :> "VgPathTransY")

\* SRC_OVER and DST_OVER exchanged
BLEND_MODES_Swapped ==
  (0 :> "NONE") @@ (1 :> "DST_OVER") @@ (2 :> "SRC_OVER") @@ (3 :> "SRC_IN") @@
  (4 :> "DST_IN") @@ (5 :> "MULTIPLY") @@ (6 :> "SCREEN") @@ (7 :> "DARKEN") @@
  (8 :> "LIGHTEN") @@ (9 :> "ADDITIVE") @@ (10 :> "SUBTRACT") @@ (12 :> "SUBTRACT_LVGL")

\* keyed by (data & 0x00000F00) >> 8
BLEND_MODES ==
  (0 :> "NONE") @@ (1 :> "SRC_OVER") @@ (2 :> "DST_OVER") @@ (3 :> "SRC_IN") @@
  (4 :> "DST_IN") @@ (5 :> "MULTIPLY") @@ (6 :> "SCREEN") @@ (7 :> "DARKEN") @@
  (8 :> "LIGHTEN") @@ (9 :> "ADDITIVE") @@ (10 :> "SUBTRACT") @@ (12 :> "SUBTRACT_LVGL")

IMAGE_FORMATS ==
  (0 :> "L8") @@ (1 :> "A4") @@ (2 :> "A8") @@ (3 :> "BGRA4444") @@ (4 :> "BGRA5551") @@
  (5 :> "BGR565") @@ (6 :> "BGRX8888") @@ (7 :> "BGRA8888") @@ (8 :> "YUYV/YUY2") @@
  (9 :> "YV12") @@ (10 :> "NV16") @@ (11 :> "NV12") @@ (12 :> "YV16") @@ (13 :> "YV24") @@
  (14 :> "ANV12") @@ (15 :> "AYUY2") @@ (19 :> "ABGR4444") @@ (20 :> "ABGR1555") @@
  (21 :> "BGRA5551") @@ (22 :> "XBGR8888") @@ (23 :> "ABGR8888") @@ (33 :> "BGR565") @@
  (35 :> "RGBA4444") @@ (36 :> "RGBA5551") @@ (37 :> "RGB565") @@ (38 :> "RGBX8888") @@
  (39 :> "RGBA8888") @@ (51 :> "ARGB4444") @@ (52 :> "ARGB1555") @@ (53 :> "ARGB5551") @@
  (54 :> "XRGB8888") @@ (55 :> "ARGB8888")

ADDRESS_REGISTERS == {2564, 2567, 2568, 2572, 2577, 2601, 2630, 2763}

\* (0x0A00, 0x0AFF)
VALID_REG_RANGES == {<<2560, 2815>>}

\* 0x00000000, 0xDEADBEEF, 0xCAFEBABE, 0xFFFFFFFF
SUSPICIOUS_ADDRESSES == {W(0, 0), W(57005, 48879), W(51966, 47806), W(65535, 65535)}

\* name -> (operand count); keyed by opcode & 0xFF
VLC_OP_CODES ==
  (0 :> <<"END", 0>>) @@ (1 :> <<"CLOSE", 0>>) @@ (2 :> <<"MOVE", 2>>) @@
  (3 :> <<"MOVE_REL", 2>>) @@ (4 :> <<"LINE", 2>>) @@ (5 :> <<"LINE_REL", 2>>) @@
  (6 :> <<"QUAD", 4>>) @@ (7 :> <<"QUAD_REL", 4>>) @@ (8 :> <<"CUBIC", 6>>) @@
  (9 :> <<"CUBIC_REL", 6>>) @@ (10 :> <<"BREAK", 0>>) @@ (11 :> <<"HLINE", 1>>) @@
  (12 :> <<"HLINE_REL", 1>>) @@ (13 :> <<"VLINE", 1>>) @@ (14 :> <<"VLINE_REL", 1>>) @@
  (15 :> <<"SQUAD", 2>>) @@ (16 :> <<"SQUAD_REL", 2>>) @@ (17 :> <<"SCUBIC", 4>>) @@
  (18 :> <<"SCUBIC_REL", 4>>) @@ (19 :> <<"SCCWARC", 5>>) @@ (20 :> <<"SCCWARC_REL", 5>>) @@
  (21 :> <<"SCWARC", 5>>) @@ (22 :> <<"SCWARC_REL", 5>>) @@ (23 :> <<"LCCWARC", 5>>) @@
  (24 :> <<"LCCWARC_REL", 5>>) @@ (25 :> <<"LCWARC", 5>>) @@ (26 :> <<"LCWARC_REL", 5>>)

\* ------------------------------------------------------------ path_parser.py
\* struct.pack("<I", w): the four bytes of a word, least significant first
WordBytes(w) == <<w.lo % 256, w.lo \div 256, w.hi % 256, w.hi \div 256>>

RECURSIVE PackPairs(_)
\* bytes_data.extend(struct.pack("<II", d1, d2)) for every pair of raw_data
PackPairs(raw_data) ==
  IF raw_data = <<>> THEN <<>>
  ELSE WordBytes(Head(raw_data)[1]) \o WordBytes(Head(raw_data)[2]) \o PackPairs(Tail(raw_data))

\* S16 fields taken to be 4 bytes wide
_get_format_size_Wide(path_format) ==
  IF path_format = "S8" THEN 1
  ELSE IF path_format = "S16" THEN 4
  ELSE 4

_get_format_size(path_format) ==
  IF path_format = "S8" THEN 1
  ELSE IF path_format = "S16" THEN 2
  ELSE 4

\* data is 1-based here, offset is the 0-based offset of the source
_read_opcode(path_format, data, offset) ==
  IF offset >= Len(data) THEN None
  ELSE IF path_format = "S8" THEN W(0, data[offset + 1])
  ELSE IF path_format = "S16" THEN
    IF offset + 2 > Len(data) THEN None
    ELSE W(0, data[offset + 1] + 256 * data[offset + 2])
  ELSE
    IF offset + 4 > Len(data) THEN None
    ELSE W(data[offset + 3] + 256 * data[offset + 4], data[offset + 1] + 256 * data[offset + 2])

\* the value of an IEEE-754 single given by its bits
Float32(w) ==
  IF w.lo = 0 /\ w.hi % 32768 = 0 THEN <<"i", 0>> ELSE <<"f", w.hi, w.lo>>

\* two's complement value of a 32-bit word
Signed32(w) ==
  IF w.hi >= 32768 THEN (w.hi - 65536) * 65536 + w.lo ELSE w.hi * 65536 + w.lo

_read_coord(path_format, data, offset) ==
  IF offset >= Len(data) THEN NoTuple
  ELSE IF path_format = "S8" THEN
    <<"i", IF data[offset + 1] >= 128 THEN data[offset + 1] - 256 ELSE data[offset + 1]>>
  ELSE IF path_format = "S16" THEN
    IF offset + 2 > Len(data) THEN NoTuple
    ELSE LET u == data[offset + 1] + 256 * data[offset + 2]
         IN  <<"i", IF u >= 32768 THEN u - 65536 ELSE u>>
  ELSE IF path_format = "S32" THEN
    IF offset + 4 > Len(data) THEN NoTuple
    ELSE <<"i", Signed32(W(data[offset + 3] + 256 * data[offset + 4],
                            data[offset + 1] + 256 * data[offset + 2]))>>
  ELSE
    IF offset + 4 > Len(data) THEN NoTuple
    ELSE Float32(W(data[offset + 3] + 256 * data[offset + 4],
                   data[offset + 1] + 256 * data[offset + 2]))

PathSegment(opcode, op_name, coords) ==
  [opcode |-> opcode, op_name |-> op_name, coords |-> coords]

RECURSIVE ReadCoords(_, _, _, _, _)
\* the `for _ in range(coord_count)` loop; yields <<coords, offset>>
ReadCoords(path_format, data, offset, remaining, coords) ==
  IF remaining = 0 \/ offset >= Len(data) THEN <<coords, offset>>
  ELSE LET coord == _read_coord(path_format, data, offset)
       IN  ReadCoords(path_format, data, offset + _get_format_size(path_format),
                      remaining - 1,
                      IF coord # NoTuple THEN Append(coords, coord) ELSE coords)

RECURSIVE ParseBytesFrom(_, _, _, _)
\* the `while offset < len(data)` loop of _parse_bytes
ParseBytesFrom(path_format, data, offset, segments) ==
  IF offset >= Len(data) THEN segments
  ELSE LET opcode == _read_opcode(path_format, data, offset)
       IN  IF opcode = None THEN segments
           ELSE IF (opcode.lo % 256) \notin DOMAIN VLC_OP_CODES
           THEN ParseBytesFrom(path_format, data,
                               offset + _get_format_size(path_format), segments)
           ELSE LET op_info == VLC_OP_CODES[opcode.lo % 256]
                    rc == ReadCoords(path_format, data,
                                     offset + _get_format_size(path_format),
                                     op_info[2], <<>>)
                    segs == Append(segments, PathSegment(opcode, op_info[1], rc[1]))
                IN  IF opcode = W(0, 0) THEN segs
                    ELSE ParseBytesFrom(path_format, data, rc[2], segs)

_parse_bytes(path_format, data) == ParseBytesFrom(path_format, data, 0, <<>>)

parse_path_data(path_format, raw_data) ==
  IF raw_data = <<>> THEN <<>> ELSE _parse_bytes(path_format, PackPairs(raw_data))

\* ---------------------------------------------------------- command_parser.py
RECURSIVE Flatten(_)
\* flat.extend(item) for every (d1, d2) of pending_data
Flatten(pending_data) ==
  IF pending_data = <<>> THEN <<>>
  ELSE <<Head(pending_data)[1], Head(pending_data)[2]>> \o Flatten(Tail(pending_data))

_flatten_path_data(pending_data) ==
  LET flat == Flatten(pending_data)
  IN  [k \in 1..(Len(flat) \div 2) |-> <<flat[2 * k - 1], flat[2 * k]>>]
      \o (IF Len(flat) % 2 = 1 THEN <<<<flat[Len(flat)], W(0, 0)>>>> ELSE <<>>)

\* a list holding `item` when `cond`, for the conditional details.append(...)
Opt(cond, item) == IF cond THEN <<item>> ELSE <<>>

\* float 1.0 (0x3F800000) and 0.0
One == Float32(W(16256, 0))

Zero == Float32(W(0, 0))

IdentityMatrix == <<One, Zero, Zero, Zero, One, Zero, Zero, Zero, One>>

\* models.py: ImageDrawInfo() with its defaults
ImageDrawInfo ==
  [src_address |-> W(0, 0), src_format |-> "UNKNOWN", src_format_raw |-> 0,
   src_width |-> 0, src_height |-> 0, src_stride |-> 0,
   dst_address |-> W(0, 0), dst_format |-> "UNKNOWN", dst_format_raw |-> 0,
   dst_width |-> W(0, 0), dst_height |-> W(0, 0), dst_stride |-> W(0, 0),
   matrix |-> IdentityMatrix, blend_mode |-> "SRC_OVER",
   offset |-> 0, section_name |-> ""]

\* models.py: ParsedCommand(...) as built at the end of _decode_command
ParsedCommand(offset, cmd_word, data_word, cmd_type, description, details, is_abnormal, abnormal_reasons) ==
  [offset |-> offset, cmd_word |-> cmd_word, data_word |-> data_word,
   cmd_type |-> cmd_type, description |-> description, details |-> details,
   is_abnormal |-> is_abnormal, abnormal_reasons |-> abnormal_reasons,
   path_data |-> <<>>, path_segments |-> <<>>]

\* REGISTER_MAP.get(address, f"REG_0x{address:04X}") (the number in decimal)
RegName(address) ==
  IF address \in DOMAIN REGISTER_MAP THEN REGISTER_MAP[address]
  ELSE "REG_0x" \o ToString(address)

\* IMAGE_FORMATS.get(fmt, f"0x{fmt:02X}")
FormatName(fmt) ==
  IF fmt \in DOMAIN IMAGE_FORMATS THEN IMAGE_FORMATS[fmt] ELSE "0x" \o ToString(fmt)

\* the decoder instance after construction
NewParser(parse_path, parse_image) ==
  [parse_path |-> parse_path, parse_image |-> parse_image,
   commands |-> <<>>, abnormal_commands |-> <<>>,
   current_path_format |-> "FP32",
   command_sections |-> <<>>, current_section |-> None,
   image_draws |-> <<>>, _current_image |-> ImageDrawInfo,
   _image_matrix |-> IdentityMatrix, _current_blend |-> "SRC_OVER"]

\* the record is appended but the source address is left in place
_finalize_image_draw_KeepSource(self, offset) ==
  IF self._current_image.src_address = W(0, 0) THEN self
  ELSE LET img == [self._current_image EXCEPT
                     !.matrix = self._image_matrix,
                     !.blend_mode = self._current_blend,
                     !.offset = offset,
                     !.section_name = IF self.current_section # None
                                      THEN self.current_section.name ELSE ""]
       IN  [self EXCEPT !.image_draws = Append(@, img)]

\* yields the instance afterwards
_finalize_image_draw(self, offset) ==
  IF self._current_image.src_address = W(0, 0) THEN self
  ELSE LET img == [self._current_image EXCEPT
                     !.matrix = self._image_matrix,
                     !.blend_mode = self._current_blend,
                     !.offset = offset,
                     !.section_name = IF self.current_section # None
                                      THEN self.current_section.name ELSE ""]
       IN  [self EXCEPT !.image_draws = Append(@, img),
                        !._current_image.src_address = W(0, 0)]

\* the records appended so far hold the list the decoder writes to
SetImageMatrix_Shared(self, idx, val) ==
  [self EXCEPT !._image_matrix[idx + 1] = val,
               !.image_draws = [k \in DOMAIN @ |-> [@[k] EXCEPT !.matrix[idx + 1] = val]]]

\* self._image_matrix[idx] = val
SetImageMatrix(self, idx, val) == [self EXCEPT !._image_matrix[idx + 1] = val]

_reset_image_state(self) ==
  [self EXCEPT !._current_image = ImageDrawInfo,
               !._image_matrix = IdentityMatrix,
               !._current_blend = "SRC_OVER"]

\* yields [details, self]: the detail strings and the instance afterwards
_decode_state_data(self, address, data) ==
  IF address = 2560 THEN    \* 0x0A00 VgControl
    LET blend == (data.lo \div 256) % 16
        blend_name == IF blend \in DOMAIN BLEND_MODES THEN BLEND_MODES[blend]
                      ELSE "0x" \o ToString(blend * 256)
    IN  [details |-> <<<<"blend_mode", blend_name>>>>
                     \o Opt(Bit(data, 0) = 1, <<"tiled">>)
                     \o Opt(Bit(data, 6) = 1, <<"scissor">>)
                     \o Opt(Bit(data, 7) = 1, <<"mask">>)
                     \o Opt(Bit(data, 20) = 1, <<"color_transform">>)
                     \o Opt(Bit(data, 21) = 1, <<"matrix">>),
         self |-> IF self.parse_image THEN [self EXCEPT !._current_blend = blend_name]
                  ELSE self]
  ELSE IF address = 2562 THEN    \* 0x0A02 VgColor
    [details |-> <<<<"color", data.hi \div 256, data.hi % 256,
                     data.lo \div 256, data.lo % 256, data>>>>,
     self |-> self]
  ELSE IF address = 2612 THEN    \* 0x0A34 VgPathControl
    LET fmt == (data.hi \div 16) % 4
        fmt_name == (0 :> "S8" @@ 1 :> "S16" @@ 2 :> "S32" @@ 3 :> "FP32")[fmt]
        quality == (data.hi \div 256) % 4
        quality_name == (0 :> "LOW" @@ 1 :> "MEDIUM" @@ 2 :> "HIGH" @@ 3 :> "BETTER")[quality]
    IN  [details |-> <<<<"path_format", fmt_name>>, <<"quality", quality_name>>>>
                     \o (IF Bit(data, 4) = 1 THEN <<<<"even_odd">>>> ELSE <<<<"non_zero">>>>)
                     \o Opt(Bit(data, 9) = 1, <<"stroke">>),
         self |-> [self EXCEPT !.current_path_format = fmt_name]]
  ELSE IF address = 2617 THEN    \* 0x0A39 VgTessWindow
    [details |-> <<<<"window_origin", data.lo, data.hi>>>>, self |-> self]
  ELSE IF address = 2618 THEN    \* 0x0A3A VgTessWindowSize
    [details |-> <<<<"window_size", data.lo, data.hi>>>>, self |-> self]
  ELSE IF address = 2619 THEN    \* 0x0A3B VgPathScale
    [details |-> <<<<"scale", Float32(data)>>>>, self |-> self]
  ELSE IF address = 2620 THEN    \* 0x0A3C VgPathBias
    [details |-> <<<<"bias", Float32(data)>>>>, self |-> self]
  ELSE IF address = 2561 THEN    \* 0x0A01 VgTargetAddress
    [details |-> <<<<"target_address", data>>>>,
     self |-> IF self.parse_image THEN [self EXCEPT !._current_image.dst_address = data]
              ELSE self]
  ELSE IF address = 2601 THEN    \* 0x0A29 VgSourceAddress
    [details |-> <<<<"source_address", data>>>>,
     self |-> IF self.parse_image THEN [self EXCEPT !._current_image.src_address = data]
              ELSE self]
  ELSE IF address = 2576 THEN    \* 0x0A10 VgTargetStride
    [details |-> <<<<"target_stride", data>>>>,
     self |-> IF self.parse_image THEN [self EXCEPT !._current_image.dst_stride = data]
              ELSE self]
  ELSE IF address = 2577 THEN    \* 0x0A11 VgTargetWidth
    [details |-> <<<<"target_width", data>>>>,
     self |-> IF self.parse_image THEN [self EXCEPT !._current_image.dst_width = data]
              ELSE self]
  ELSE IF address = 2578 THEN    \* 0x0A12 VgTargetHeight
    [details |-> <<<<"target_height", data>>>>,
     self |-> IF self.parse_image THEN [self EXCEPT !._current_image.dst_height = data]
              ELSE self]
  ELSE IF address = 2579 THEN    \* 0x0A13 VgTargetConfig
    LET fmt == data.lo % 64
    IN  [details |-> <<<<"target_format", FormatName(fmt)>>>>,
         self |-> IF self.parse_image
                  THEN [self EXCEPT !._current_image.dst_format = FormatName(fmt),
                                    !._current_image.dst_format_raw = fmt]
                  ELSE self]
  ELSE IF address = 2597 THEN    \* 0x0A25 VgSourceConfig
    LET fmt == data.lo % 64
        filter_mode == data.hi % 4
        filter_name == (0 :> "POINT" @@ 1 :> "LINEAR" @@ 2 :> "BI_LINEAR"
                        @@ 3 :> "GAUSSIAN")[filter_mode]
    IN  [details |-> <<<<"source_format", FormatName(fmt), filter_name>>>>,
         self |-> IF self.parse_image
                  THEN [self EXCEPT !._current_image.src_format = FormatName(fmt),
                                    !._current_image.src_format_raw = fmt]
                  ELSE self]
  ELSE IF address = 2603 THEN    \* 0x0A2B VgSourceStride
    LET stride == Low28(data)
        tiled == Bit(data, 28)
    IN  [details |-> <<<<"source_stride", stride, tiled # 0>>>>,
         self |-> IF self.parse_image THEN [self EXCEPT !._current_image.src_stride = stride]
                  ELSE self]
  ELSE IF address = 2605 THEN    \* 0x0A2D VgSourceOrigin
    [details |-> <<<<"source_origin", data.lo, data.hi>>>>, self |-> self]
  ELSE IF address = 2607 THEN    \* 0x0A2F VgSourceSize
    [details |-> <<<<"source_size", data.lo, data.hi>>>>,
     self |-> IF self.parse_image
              THEN [self EXCEPT !._current_image.src_width = data.lo,
                                !._current_image.src_height = data.hi]
              ELSE self]
  ELSE IF address = 2587 THEN    \* 0x0A1B VgTessControl
    [details |-> <<<<"tess_control", data>>>>, self |-> self]
  ELSE IF address = 2621 THEN    \* 0x0A3D VgTessSize, data * 64 on the halves
    [details |-> <<<<"tess_bytes", data.hi * 64, data.lo * 64>>>>, self |-> self]
  ELSE IF address \in 2624..2629 THEN    \* range(0x0A40, 0x0A46) path matrix
    LET idx == address - 2624
    IN  [details |-> <<<<"path_matrix", idx \div 3, idx % 3, Float32(data)>>>>,
         self |-> self]
  ELSE IF address \in 2608..2616 THEN    \* range(0x0A30, 0x0A39) image matrix
    LET idx == address - 2608
    IN  [details |-> <<<<"image_matrix", idx, Float32(data)>>>>,
         self |-> IF self.parse_image THEN SetImageMatrix(self, idx, Float32(data))
                  ELSE self]
  ELSE
    [details |-> <<<<"data", data>>>>, self |-> self]

\* any(start <= address <= end for start, end in VALID_REG_RANGES)
is_valid_range(address) ==
  \E r \in VALID_REG_RANGES : r[1] <= address /\ address <= r[2]

\* data_word != 0 and (data_word < 0x10000000 or data_word > 0x80000000)
AddressOutOfWindow(data_word) ==
  /\ data_word # W(0, 0)
  /\ \/ WordLess(data_word, W(4096, 0))
     \/ WordLess(W(32768, 0), data_word)

\* yields [cmd, self]: the ParsedCommand and the instance afterwards
_decode_command(self, offset, cmd_word, data_word) ==
  LET opcode == Opcode(cmd_word)
  IN
  IF opcode = CommandType["STATE"] THEN
    LET count == cmd_word.hi % 256
        address == cmd_word.lo
    IN  IF count = 1 THEN
          LET sd == _decode_state_data(self, address, data_word)
              unknown == address \notin DOMAIN REGISTER_MAP /\ ~is_valid_range(address)
              suspicious == address \in ADDRESS_REGISTERS
                            /\ data_word \in SUSPICIOUS_ADDRESSES
              out_of_window == address \in ADDRESS_REGISTERS
                               /\ AddressOutOfWindow(data_word)
          IN  [cmd |-> ParsedCommand(offset, cmd_word, data_word, "STATE",
                                     <<"write_register", RegName(address)>>, sd.details,
                                     unknown \/ suspicious \/ out_of_window,
                                     Opt(unknown, <<"unknown_register", address>>)
                                     \o Opt(suspicious, <<"suspicious_address", data_word>>)
                                     \o Opt(out_of_window,
                                            <<"address_out_of_range", data_word>>)),
               self |-> sd.self]
        ELSE
          [cmd |-> ParsedCommand(offset, cmd_word, data_word, "STATES",
                                 <<"burst_write", count, RegName(address)>>, <<>>,
                                 count > 64,
                                 Opt(count > 64, <<"burst_too_large", count>>)),
               self |-> self]
  ELSE IF opcode = CommandType["END"] THEN
    LET interrupt == Low24(cmd_word)
    IN  [cmd |-> ParsedCommand(offset, cmd_word, data_word, "END", <<"end">>,
                               Opt(interrupt # 0, <<"interrupt", interrupt>>),
                               FALSE, <<>>),
         self |-> self]
  ELSE IF opcode = CommandType["SEMAPHORE"] THEN
    LET sem_id == Low28(cmd_word)
    IN  [cmd |-> ParsedCommand(offset, cmd_word, data_word, "SEMAPHORE",
                               <<"semaphore", sem_id>>, <<>>,
                               sem_id > 31,
                               Opt(sem_id > 31, <<"semaphore_id_range", sem_id>>)),
         self |-> self]
  ELSE IF opcode = CommandType["STALL"] THEN
    LET stall_id == Low28(cmd_word)
    IN  [cmd |-> ParsedCommand(offset, cmd_word, data_word, "STALL",
                               <<"stall", stall_id>>,
                               Opt(stall_id = 7, <<"wait_all_paths">>),
                               stall_id > 31,
                               Opt(stall_id > 31, <<"stall_id_range", stall_id>>)),
         self |-> self]
  ELSE IF opcode = CommandType["DATA"] THEN
    LET data_count == Low28(cmd_word)
    IN  [cmd |-> ParsedCommand(offset, cmd_word, data_word, "DATA",
                               IF data_count = 1 THEN <<"blit">>
                               ELSE <<"path_data", data_count>>,
                               <<>>,
                               data_count > 65536,    \* 0x10000
                               Opt(data_count > 65536, <<"data_too_large", data_count>>)),
         self |-> IF data_count = 1 /\ self.parse_image
                     /\ self._current_image.src_address # W(0, 0)
                  THEN _finalize_image_draw(self, offset) ELSE self]
  ELSE IF opcode = CommandType["CALL"] THEN
    LET call_count == Low28(cmd_word)
    IN  [cmd |-> ParsedCommand(offset, cmd_word, data_word, "CALL", <<"call">>,
                               <<<<"address", data_word>>, <<"length", call_count>>>>,
                               data_word \in SUSPICIOUS_ADDRESSES,
                               Opt(data_word \in SUSPICIOUS_ADDRESSES,
                                   <<"suspicious_call", data_word>>)),
         self |-> self]
  ELSE IF opcode = CommandType["RETURN"] THEN
    [cmd |-> ParsedCommand(offset, cmd_word, data_word, "RETURN", <<"return">>, <<>>,
                           FALSE, <<>>),
     self |-> self]
  ELSE IF opcode = CommandType["NOP"] THEN
    [cmd |-> ParsedCommand(offset, cmd_word, data_word, "NOP", <<"nop">>, <<>>,
                           FALSE, <<>>),
     self |-> self]
  ELSE
    [cmd |-> ParsedCommand(offset, cmd_word, data_word, "UNKNOWN",
                           <<"unknown_command", opcode>>, <<>>,
                           TRUE, <<<<"unknown_opcode", opcode>>>>),
     self |-> self]

\* --------------------------------------------------------------- input lines
\* A log line, by what parse_log tests on it after clean_log_line:
\*   empty  the cleaned line is empty
\*   init   "init command buffer" in line_lower
\*   last   "last submit command" in line_lower;  hang  "before hang" in line_lower
\*   meta   "addr 0x" and "size 0x" in line_lower; addr, size the regex groups
\*   idle   "idle reg" in line_lower
\*   pair   the (cmd_word, data_word) matched by the hex-pair pattern, if any
TextLine(empty, init, last, hang, meta, idle, pair) ==
  [empty |-> empty, init |-> init, last |-> last, hang |-> hang,
   meta |-> meta, addr |-> IF meta THEN "0x20001000" ELSE NoString,
   size |-> IF meta THEN "0x400" ELSE NoString, idle |-> idle, pair |-> pair]

BlankLine == TextLine(TRUE, FALSE, FALSE, FALSE, FALSE, FALSE, NoTuple)

InitMarker == TextLine(FALSE, TRUE, FALSE, FALSE, FALSE, FALSE, NoTuple)

LastMarker == TextLine(FALSE, FALSE, TRUE, FALSE, FALSE, FALSE, NoTuple)

HangMarker == TextLine(FALSE, FALSE, TRUE, TRUE, FALSE, FALSE, NoTuple)

MetaLine == TextLine(FALSE, FALSE, FALSE, FALSE, TRUE, FALSE, NoTuple)

IdleLine == TextLine(FALSE, FALSE, FALSE, FALSE, FALSE, TRUE, NoTuple)

JunkLine == TextLine(FALSE, FALSE, FALSE, FALSE, FALSE, FALSE, NoTuple)

HexLine(cmd_word, data_word) ==
  TextLine(FALSE, FALSE, FALSE, FALSE, FALSE, FALSE, <<cmd_word, data_word>>)

\* the lines that are not command words
OtherLines == {BlankLine, InitMarker, LastMarker, MetaLine, IdleLine, JunkLine}

\* 0x30010A34 0x00000000: path format S8
PathControlS8 == HexLine(W(12289, 2612), W(0, 0))

\* 0x30010A34 0x00100000: path format S16
PathControlS16 == HexLine(W(12289, 2612), W(16, 0))

\* 0x40000001 0x00000000: Data, count 1
Data1 == HexLine(W(16384, 1), W(0, 0))

\* 0x40000002 0x00000000: Data, count 2
Data2 == HexLine(W(16384, 2), W(0, 0))

\* 0x40001001 0x00000000: Data, count 0x1001, above MAX_REASONABLE_DATA_COUNT
DataOversized == HexLine(W(16384, 4097), W(0, 0))

\* 0x00000002 0x00000000: as payload a MOVE opcode, as a command END
MoveWord == HexLine(W(0, 2), W(0, 0))

\* 0x90000000 0x00000000: no opcode class
UnknownWord == HexLine(W(36864, 0), W(0, 0))

\* 0x30010A29 0x20000000: source address
SourceAddress == HexLine(W(12289, 2601), W(8192, 0))

\* 0x30010A01 0x30000000: target address
TargetAddress == HexLine(W(12289, 2561), W(12288, 0))

\* 0x30010A00 0x00000200: blend mode DST_OVER
BlendDstOver == HexLine(W(12289, 2560), W(0, 512))

\* 0x30010A30 0x40000000: image matrix m00 = 2.0
ImageMatrix0 == HexLine(W(12289, 2608), W(16384, 0))

\* the log alphabet of the path-payload scenarios
PathLines ==
  OtherLines \cup {PathControlS8, Data1, Data2, DataOversized, MoveWord}

\* the log alphabet of the image-draw scenarios
ImageLines ==
  OtherLines \cup {SourceAddress, TargetAddress, BlendDstOver, ImageMatrix0, Data1}

\* the log alphabet of the scenarios that parse one text twice
TwiceLines == OtherLines \cup {PathControlS8, Data1, MoveWord, UnknownWord}

\* the log alphabet of the word-decoding scenarios: every opcode class, as a
\* single (count field 1) and as a repeated (count field 2) word, on a register
\* address inside the valid range but unmapped (0x0A23) and on one outside
\* (0x0B00)
DecodeLines ==
  OtherLines \cup {Data1}
  \cup {HexLine(W(n * 4096 + c, a), W(0, 0)) : n \in 0..15, c \in {1, 2}, a \in {2595, 2816}}

\* the log alphabet of the blend-control scenarios: single writes to VgControl
\* (0x0A00) with every value of bits 8..11 of the data word, with and without
\* the flag bits, and with bits 24..27 of the command word clear and set
ControlLines ==
  OtherLines \cup {Data1}
  \cup {HexLine(W(12289 + 3840 * t, 2560), W(48 * f, 256 * b + 193 * f)) :
          t \in {0, 1}, b \in 0..15, f \in {0, 1}}

\* the log alphabet of the image-matrix scenarios: single writes of 2.0 to the
\* registers 0x0A30..0x0A38
MatrixLines ==
  OtherLines \cup {Data1} \cup {HexLine(W(12289, a), W(16384, 0)) : a \in 2608..2616}

\* the lines a log text is drawn from, per scenario
Alphabet ==
  [path |-> PathLines, image |-> ImageLines, twice |-> TwiceLines,
   decode |-> DecodeLines, control |-> ControlLines, matrix |-> MatrixLines]

\* the number of lines of a log text, per scenario
LineLimit ==
  [path |-> MaxLines, image |-> MaxLines, twice |-> MaxLines,
   decode |-> MaxDecodeLines, control |-> MaxDecodeLines, matrix |-> MaxDecodeLines]

\* ------------------------------------------------------------------- state
VARIABLES
  self,               \* the VGLiteCommandParser instance (its attributes)
  heap,               \* every ParsedCommand object created so far
  offset,             \* parse_log local
  skip_lines,         \* parse_log local
  pending_path_data,  \* parse_log local
  lines,              \* lines[:i], the lines of log_text processed so far
  fate,               \* per processed line, the branch of the loop that took it
  pc,                 \* "idle", "loop" (inside parse_log), "done" (returned)
  scenario,           \* which log texts are considered (Alphabet, LineLimit)
  prev,               \* the text and the result of the first parse_log call
  replay,             \* the current call re-parses the text of the previous one
  path_parser,        \* a VGLitePathParser instance, its byte run and its result
  coredump            \* the CoredumpParser instance and the position of its caller

vars == <<self, heap, offset, skip_lines, pending_path_data, lines, fate, pc,
          scenario, prev, replay, path_parser, coredump>>

\* the ceiling of the anomaly rule (0x10000) used for the payload skip
MAX_REASONABLE_DATA_COUNT_Anomaly == 65536

MAX_REASONABLE_DATA_COUNT == 4096

Range(seq) == {seq[k] : k \in DOMAIN seq}

NewSection(name) ==
  [name |-> name, address |-> NoString, size |-> NoString,
   commands |-> <<>>, abnormal_commands |-> <<>>]

\* the nested function of parse_log; `offset = 0` is done by the caller action
start_new_section(slf, name) ==
  [slf EXCEPT
     !.command_sections =
        IF slf.current_section # None /\ slf.current_section.commands # <<>>
        THEN Append(@, slf.current_section) ELSE @,
     !.current_section = NewSection(name)]

\* yields [cmd, self]; cmd is None when the hex-pair pattern does not match
parse_line(slf, line, off) ==
  IF line.pair = NoTuple THEN [cmd |-> None, self |-> slf]
  ELSE _decode_command(slf, off, line.pair[1], line.pair[2])

\* lines 507-515 and 539-551: attach the collected payload to last_cmd
AttachPayload(hp, slf, pending) ==
  IF pending # <<>> /\ slf.current_section # None
     /\ slf.current_section.commands # <<>>
  THEN LET last == slf.current_section.commands[Len(slf.current_section.commands)]
           path_data == _flatten_path_data(pending)
       IN  IF hp[last].cmd_type = "DATA"
           THEN [hp EXCEPT ![last].path_data = path_data,
                           ![last].path_segments =
                              IF slf.parse_path
                              THEN parse_path_data(slf.current_path_format, path_data)
                              ELSE @]
           ELSE hp
  ELSE hp

\* lines 553-557: the closing pass over self.commands
ReparseEmpty(hp, slf) ==
  IF slf.parse_path
  THEN [id \in DOMAIN hp |->
          IF id \in Range(slf.commands) /\ hp[id].cmd_type = "DATA"
             /\ hp[id].path_data # <<>> /\ hp[id].path_segments = <<>>
          THEN [hp[id] EXCEPT !.path_segments =
                  parse_path_data(slf.current_path_format, hp[id].path_data)]
          ELSE hp[id]]
  ELSE hp

\* no VGLitePathParser instance is under consideration
NoPathParser == [pc |-> "none"]

\* no CoredumpParser instance is under consideration
NoCoredump == [pc |-> "none"]

\* the next line of the text: free, or dictated by the text being re-parsed
NextLines ==
  IF coredump.pc \in {"backup_parse", "init_parse"}
  THEN (IF Len(lines) < Len(coredump.log_text)
        THEN {coredump.log_text[Len(lines) + 1]} ELSE {})
  ELSE IF replay THEN (IF Len(lines) < Len(prev.lines)
                  THEN {prev.lines[Len(lines) + 1]} ELSE {})
  ELSE IF Len(lines) < LineLimit[scenario] THEN Alphabet[scenario] ELSE {}

Consume(line, what) ==
  /\ lines' = Append(lines, line)
  /\ fate' = Append(fate, what)

\* which branch of the loop body takes a line (lines 462-496)
IsBlank(line) == line.empty

IsMarker(line) == ~line.empty /\ (line.init \/ line.last)

IsMeta(line) == ~line.empty /\ ~line.init /\ ~line.last /\ line.meta

IsIdle(line) == ~line.empty /\ ~line.init /\ ~line.last /\ ~line.meta /\ line.idle

IsCommandCandidate(line) ==
  ~line.empty /\ ~line.init /\ ~line.last /\ ~line.meta /\ ~line.idle

\* ----------------------------------------------------------------- actions
\* parse_log is entered: lines 435-440
ParseLogBegin ==
  /\ pc = "idle"
  /\ self' = [self EXCEPT !.commands = <<>>, !.command_sections = <<>>,
                          !.current_section = None]
  /\ offset' = 0
  /\ skip_lines' = 0
  /\ pending_path_data' = <<>>
  /\ lines' = <<>>
  /\ fate' = <<>>
  /\ pc' = "loop"
  /\ UNCHANGED <<heap, scenario, prev, replay,
                 path_parser, coredump>>

\* `if not line: continue`
EmptyLine ==
  /\ pc = "loop"
  /\ \E line \in NextLines :
       /\ IsBlank(line)
       /\ Consume(line, <<"blank">>)
  /\ UNCHANGED <<self, heap, offset, skip_lines, pending_path_data, pc,
                 scenario, prev, replay,
                 path_parser, coredump>>

\* a section marker: start_new_section(name)
SectionMarker ==
  /\ pc = "loop"
  /\ \E line \in NextLines :
       /\ IsMarker(line)
       /\ self' = start_new_section(self,
                    IF line.init THEN "InitCommandBuffer"
                    ELSE IF line.hang THEN "LastSubmitBeforeHang"
                    ELSE "LastSubmit")
       /\ Consume(line, <<"marker">>)
  /\ offset' = 0
  /\ UNCHANGED <<heap, skip_lines, pending_path_data, pc, scenario, prev, replay,
                 path_parser, coredump>>

\* an "addr 0x.. size 0x.." line
SectionMeta ==
  /\ pc = "loop"
  /\ \E line \in NextLines :
       /\ IsMeta(line)
       /\ self' = IF line.addr # NoString /\ line.size # NoString /\ self.current_section # None
                  THEN [self EXCEPT !.current_section.address = line.addr,
                                    !.current_section.size = line.size]
                  ELSE self
       /\ Consume(line, <<"meta">>)
  /\ UNCHANGED <<heap, offset, skip_lines, pending_path_data, pc,
                 scenario, prev, replay,
                 path_parser, coredump>>

\* an "idle reg" line
IdleReg ==
  /\ pc = "loop"
  /\ \E line \in NextLines :
       /\ IsIdle(line)
       /\ Consume(line, <<"idle">>)
  /\ UNCHANGED <<self, heap, offset, skip_lines, pending_path_data, pc,
                 scenario, prev, replay,
                 path_parser, coredump>>

\* the payload branch without `offset += 8`
PayloadLine_NoAdvance ==
  /\ pc = "loop"
  /\ skip_lines > 0
  /\ \E line \in NextLines :
       /\ IsCommandCandidate(line)
       /\ pending_path_data' = IF line.pair # NoTuple
                               THEN Append(pending_path_data, line.pair)
                               ELSE pending_path_data
       /\ Consume(line, <<"payload">>)
  /\ skip_lines' = skip_lines - 1
  /\ UNCHANGED <<self, heap, offset, pc, scenario, prev, replay,
                 path_parser, coredump>>

\* `if skip_lines > 0:` lines 485-494
PayloadLine ==
  /\ pc = "loop"
  /\ skip_lines > 0
  /\ \E line \in NextLines :
       /\ IsCommandCandidate(line)
       /\ pending_path_data' = IF line.pair # NoTuple
                               THEN Append(pending_path_data, line.pair)
                               ELSE pending_path_data
       /\ Consume(line, <<"payload">>)
  /\ skip_lines' = skip_lines - 1
  /\ offset' = offset + 8
  /\ UNCHANGED <<self, heap, pc, scenario, prev, replay,
                 path_parser, coredump>>

\* parse_line returned None: nothing happens
UnparsedLine ==
  /\ pc = "loop"
  /\ skip_lines = 0
  /\ \E line \in NextLines :
       /\ IsCommandCandidate(line)
       /\ parse_line(self, line, offset).cmd = None
       /\ Consume(line, <<"unparsed">>)
  /\ UNCHANGED <<self, heap, offset, skip_lines, pending_path_data, pc,
                 scenario, prev, replay,
                 path_parser, coredump>>

\* parse_line returned a command: lines 496-534
DecodeLine ==
  /\ pc = "loop"
  /\ skip_lines = 0
  /\ \E line \in NextLines :
       /\ IsCommandCandidate(line)
       /\ LET r == parse_line(self, line, offset)
              cmd == r.cmd
              s1 == IF r.self.current_section = None
                    THEN [r.self EXCEPT !.current_section = NewSection("CommandBuffer")]
                    ELSE r.self
              id == Len(heap) + 1
              s2 == [s1 EXCEPT
                       !.current_section.commands = Append(@, id),
                       !.current_section.abnormal_commands =
                          IF cmd.is_abnormal THEN Append(@, id) ELSE @,
                       !.commands = Append(@, id),
                       !.abnormal_commands = IF cmd.is_abnormal THEN Append(@, id) ELSE @]
          IN  /\ cmd # None
              /\ heap' = Append(AttachPayload(heap, s1, pending_path_data), cmd)
              /\ self' = s2
              /\ skip_lines' = IF cmd.cmd_type = "DATA"
                               THEN (IF Low28(cmd.cmd_word) > MAX_REASONABLE_DATA_COUNT
                                     THEN 0 ELSE Low28(cmd.cmd_word))
                               ELSE skip_lines
              /\ Consume(line, <<"command", id>>)
  /\ pending_path_data' = <<>>
  /\ offset' = offset + 8
  /\ UNCHANGED <<pc, scenario, prev, replay,
                 path_parser, coredump>>

\* the value of a command list: the objects it holds
Values(hp, ids) == [k \in DOMAIN ids |-> hp[ids[k]]]

\* the loop is over: lines 536-559
ParseLogEnd ==
  /\ pc = "loop"
  /\ Len(lines) >= 1
  /\ replay => Len(lines) = Len(prev.lines)
  /\ coredump.pc \in {"backup_parse", "init_parse"} => Len(lines) = Len(coredump.log_text)
  /\ LET s1 == IF self.current_section # None /\ self.current_section.commands # <<>>
               THEN [self EXCEPT !.command_sections = Append(@, self.current_section)]
               ELSE self
         h1 == ReparseEmpty(AttachPayload(heap, self, pending_path_data), self)
     IN  /\ self' = s1
         /\ heap' = h1
         /\ prev' = IF replay THEN prev
                    ELSE [lines |-> lines, commands |-> Values(h1, s1.commands)]
  /\ pc' = "done"
  /\ UNCHANGED <<offset, skip_lines, pending_path_data, lines, fate, scenario, replay,
                 path_parser, coredump>>

\* parse_log is called again on the same instance with the same text
ParseLogAgain ==
  /\ pc = "done"
  /\ ~replay
  /\ replay' = TRUE
  /\ self' = [self EXCEPT !.commands = <<>>, !.command_sections = <<>>,
                          !.current_section = None]
  /\ offset' = 0
  /\ skip_lines' = 0
  /\ pending_path_data' = <<>>
  /\ lines' = <<>>
  /\ fate' = <<>>
  /\ pc' = "loop"
  /\ UNCHANGED <<heap, scenario, prev,
                 path_parser, coredump>>

InitWith(name) ==
  /\ \E parse_path \in BOOLEAN, parse_image \in BOOLEAN :
       self = NewParser(parse_path, parse_image)
  /\ heap = <<>>
  /\ offset = 0
  /\ skip_lines = 0
  /\ pending_path_data = <<>>
  /\ lines = <<>>
  /\ fate = <<>>
  /\ pc = "idle"
  /\ scenario = name
  /\ prev = [lines |-> <<>>, commands |-> <<>>]
  /\ replay = FALSE
  /\ path_parser = NoPathParser
  /\ coredump = NoCoredump

Init == InitWith("path")

Next ==
  \/ ParseLogBegin
  \/ EmptyLine
  \/ SectionMarker
  \/ SectionMeta
  \/ IdleReg
  \/ PayloadLine
  \/ UnparsedLine
  \/ DecodeLine
  \/ ParseLogEnd

Spec == Init /\ [][Next]_vars

\* the image-draw scenarios
InitImage == InitWith("image")

SpecImage == InitImage /\ [][Next]_vars

\* the word-decoding scenarios
InitDecode == InitWith("decode")

SpecDecode == InitDecode /\ [][Next]_vars

\* the blend-control scenarios
InitControl == InitWith("control")

SpecControl == InitControl /\ [][Next]_vars

\* the image-matrix scenarios
InitMatrix == InitWith("matrix")

SpecMatrix == InitMatrix /\ [][Next]_vars

\* one text parsed twice by the same instance
InitTwice == InitWith("twice")

NextTwice == Next \/ ParseLogAgain

SpecTwice == InitTwice /\ [][NextTwice]_vars

\* ------------------------------------------------------- reading the history
\* line k was decoded into an instruction
IsCmd(k) == fate[k][1] = "command"

\* the instruction decoded from line k, as it is now
CmdOf(k) == heap[fate[k][2]]

IsData(k) == IsCmd(k) /\ CmdOf(k).cmd_type = "DATA"

\* the count a Data instruction announces
Count(k) == Low28(CmdOf(k).cmd_word)

\* line k holds a hex word pair
IsHex(k) == lines[k].pair # NoTuple

IsMarkerAt(k) == fate[k] = <<"marker">>

\* the hex word pairs among lines a..b
HexIn(a, b) == {m \in a..b : IsHex(m)}

\* j is the first instruction decoded after line k
NextCmdAfter(k, j) == j > k /\ IsCmd(j) /\ \A m \in (k + 1)..(j - 1) : ~IsCmd(m)

\* j is the first hex word pair after line k
NextHexAfter(k, j) == j > k /\ IsHex(j) /\ \A m \in (k + 1)..(j - 1) : ~IsHex(m)

\* --------------------------------------------------------------------- claims
\* C1: after a Data instruction announcing a count n within the sanity
\* ceiling, the next n hex word pairs of the input are consumed as payload
\* and never decoded, and the next decoded instruction has
\* offset = (offset of the Data instruction) + 8*(n+1).
C1_PayloadThenNextInstruction ==
  \A k \in DOMAIN lines :
    (IsData(k) /\ Count(k) <= 4096) =>
      \A j \in (k + 1)..Len(lines) :
        /\ (IsHex(j) /\ Cardinality(HexIn(k + 1, j)) <= Count(k))
             => fate[j] = <<"payload">>
        /\ NextCmdAfter(k, j)
             => CmdOf(j).offset = CmdOf(k).offset + 8 * (Count(k) + 1)

\* C2 as stated: after a Data announcement above the sanity ceiling nothing is
\* consumed as payload and the next command word is decoded at
\* offset = (offset of the Data instruction) + 8.
C2_Original ==
  \A k \in DOMAIN lines :
    (IsData(k) /\ Count(k) > 4096) =>
      /\ k = Len(lines) => (skip_lines = 0 /\ pending_path_data = <<>>)
      /\ \A j \in (k + 1)..Len(lines) :
           NextHexAfter(k, j) =>
             /\ IsCmd(j)
             /\ CmdOf(j).offset = CmdOf(k).offset + 8

\* C2: after a Data announcement above the sanity ceiling the pending-skip
\* counter stays 0 and the accumulator stays empty, and the next command word
\* is decoded as an instruction, at offset = (offset of the Data
\* instruction) + 8 when no section marker lies between them and at offset 0
\* when one does.
C2_OversizedDataNotSkipped ==
  \A k \in DOMAIN lines :
    (IsData(k) /\ Count(k) > 4096) =>
      /\ k = Len(lines) => (skip_lines = 0 /\ pending_path_data = <<>>)
      /\ \A j \in (k + 1)..Len(lines) :
           NextHexAfter(k, j) =>
             /\ IsCmd(j)
             /\ CmdOf(j).offset =
                  IF \E m \in (k + 1)..(j - 1) : IsMarkerAt(m) THEN 0
                  ELSE CmdOf(k).offset + 8

\* an oversized Data announcement, then a command word decoded right behind it
C2_Witness ==
  \E k \in DOMAIN lines :
    /\ IsData(k) /\ Count(k) > 4096
    /\ k < Len(lines) /\ IsCmd(k + 1) /\ CmdOf(k + 1).offset = CmdOf(k).offset + 8

\* the path format written by a path-control StateWrite
PathFormatOf(data_word) ==
  <<"S8", "S16", "S32", "FP32">>[((data_word.hi \div 16) % 4) + 1]

IsPathControl(k) ==
  IsCmd(k) /\ CmdOf(k).cmd_type = "STATE" /\ CmdOf(k).cmd_word.lo = 2612

\* the path format set by the most recent path-control StateWrite before line k
FormatBefore(k) ==
  LET writes == {m \in 1..(k - 1) : IsPathControl(m)}
  IN  IF writes = {} THEN "FP32"
      ELSE PathFormatOf(CmdOf(CHOOSE m \in writes : \A o \in writes : o <= m).data_word)

\* C3: every Data payload is interpreted with the path format set by the most
\* recent path-control StateWrite that precedes it (FP32 if none); a
\* path-control StateWrite after the payload never changes its path segments.
C3_FormatOfPrecedingWrite ==
  \A k \in DOMAIN lines :
    (IsData(k) /\ self.parse_path /\ CmdOf(k).path_data # <<>>) =>
      CmdOf(k).path_segments = parse_path_data(FormatBefore(k), CmdOf(k).path_data)

\* the pairs of lines a..b, in input order
PairsOf(a, b) == [m \in 1..(b - a + 1) |-> lines[a + m - 1].pair]

\* C4: in the finished decode, every Data instruction with count n within the
\* sanity ceiling that is followed in the input by n hex word pairs has exactly
\* those n pairs attached, whatever comes next.
C4_PayloadAttached ==
  pc = "done" =>
    \A k \in DOMAIN lines :
      (/\ IsData(k) /\ Count(k) <= 4096
       /\ k + Count(k) <= Len(lines)
       /\ \A m \in (k + 1)..(k + Count(k)) : IsHex(m))
      => CmdOf(k).path_data = PairsOf(k + 1, k + Count(k))

\* every segment of the decode so far
Sections ==
  Range(self.command_sections)
  \cup (IF self.current_section # None THEN {self.current_section} ELSE {})

\* the line an instruction was decoded from
LineOf(id) == CHOOSE k \in DOMAIN lines : fate[k] = <<"command", id>>

\* C5 as stated: within a segment each instruction's offset is exactly 8
\* greater than the offset of the instruction decoded before it.
C5_Original ==
  \A sec \in Sections :
    \A n \in 2..Len(sec.commands) :
      heap[sec.commands[n]].offset = heap[sec.commands[n - 1]].offset + 8

\* C5: within a segment offsets are strictly increasing in steps of 8: each
\* instruction's offset exceeds the offset of the instruction decoded before
\* it by 8, plus 8 for every payload line consumed between the two.
C5_OffsetsIncreaseBy8 ==
  \A sec \in Sections :
    \A n \in 2..Len(sec.commands) :
      LET a == LineOf(sec.commands[n - 1])
          b == LineOf(sec.commands[n])
      IN  heap[sec.commands[n]].offset =
            heap[sec.commands[n - 1]].offset
            + 8 * (1 + Cardinality({m \in a..b : fate[m] = <<"payload">>}))

\* a segment holding a Data instruction, its payload line and the next
\* instruction, 16 bytes further
C5_Witness ==
  \E sec \in Sections :
    \E n \in 2..Len(sec.commands) :
      /\ heap[sec.commands[n - 1]].cmd_type = "DATA"
      /\ heap[sec.commands[n]].offset = heap[sec.commands[n - 1]].offset + 16

\* C6: after a section marker the current path format, the in-progress
\* image-draw accumulator, the image transform matrix and the blend mode all
\* have their initial values.
C6_MarkerResetsContext ==
  (lines # <<>> /\ IsMarkerAt(Len(lines))) =>
    /\ self.current_path_format = "FP32"
    /\ self._current_image = ImageDrawInfo
    /\ self._image_matrix = IdentityMatrix
    /\ self._current_blend = "SRC_OVER"

\* C7: decoding the same log text a second time on the same decoder instance
\* yields the same decoded instruction sequence as the first time.
C7_Idempotent ==
  (pc = "done" /\ replay) => Values(heap, self.commands) = prev.commands

\* C8: a command word whose top 4 bits select none of the known opcode classes
\* is decoded as class Unknown with the anomaly flag true, and no instruction
\* of class Unknown has a false anomaly flag.
C8_UnknownOpcodeAbnormal ==
  \A id \in DOMAIN heap :
    /\ Opcode(heap[id].cmd_word) \notin {0, 1, 2, 3, 4, 6, 7, 8}
         => (heap[id].cmd_type = "UNKNOWN" /\ heap[id].is_abnormal)
    /\ heap[id].cmd_type = "UNKNOWN" => heap[id].is_abnormal

\* an instruction decoded from a word of an unassigned opcode class
C8_Witness ==
  \E id \in DOMAIN heap :
    /\ Opcode(heap[id].cmd_word) \in {5, 9, 15}
    /\ heap[id].cmd_type = "UNKNOWN" /\ heap[id].is_abnormal

\* C9: every register write (single StateWrite or StateBurst) whose register
\* address is not in the known register map and outside all valid ranges has
\* the anomaly flag true, with a reason identifying the unknown address.
C9_UnknownRegisterAbnormal ==
  \A id \in DOMAIN heap :
    (/\ heap[id].cmd_type \in {"STATE", "STATES"}
     /\ heap[id].cmd_word.lo \notin DOMAIN REGISTER_MAP
     /\ ~(2560 <= heap[id].cmd_word.lo /\ heap[id].cmd_word.lo <= 2815))
    => /\ heap[id].is_abnormal
       /\ <<"unknown_register", heap[id].cmd_word.lo>> \in Range(heap[id].abnormal_reasons)

\* this step decodes a Data instruction with count 1
DecodesBlitMarker ==
  /\ pc = "loop"
  /\ Len(fate') = Len(fate) + 1
  /\ fate'[Len(fate')][1] = "command"
  /\ heap'[fate'[Len(fate')][2]].cmd_type = "DATA"
  /\ Low28(heap'[fate'[Len(fate')][2]].cmd_word) = 1

\* C10: with image tracking enabled, decoding a Data instruction with count 1
\* while the in-progress source address is non-zero appends exactly one
\* Image-Draw record and clears the source address, leaving the destination
\* fields as they were; decoding one while the source address is 0 appends
\* no record.
C10_BlitFinalizesImageDraw ==
  [][(DecodesBlitMarker /\ self.parse_image) =>
       IF self._current_image.src_address # W(0, 0)
       THEN /\ Len(self'.image_draws) = Len(self.image_draws) + 1
            /\ SubSeq(self'.image_draws, 1, Len(self.image_draws)) = self.image_draws
            /\ self'.image_draws[Len(self'.image_draws)].src_address
                 = self._current_image.src_address
            /\ self'._current_image
                 = [self._current_image EXCEPT !.src_address = W(0, 0)]
       ELSE /\ self'.image_draws = self.image_draws
            /\ self'._current_image = self._current_image]_vars

\* one record appended, the source address cleared, the destination kept
C10_Witness ==
  /\ self.parse_image
  /\ Len(self.image_draws) = 1
  /\ self._current_image.src_address = W(0, 0)
  /\ self._current_image.dst_address # W(0, 0)
  /\ self.image_draws[1].dst_address = self._current_image.dst_address

\* C11: a Data instruction with count == 1 is a rectangle-blit marker, not
\* path data: it sets no pending skip, the word pair that follows it is not
\* accumulated as path payload, and no raw path bytes or path segments are
\* ever attached to it.
C11_BlitMarkerHasNoPayload ==
  \A k \in DOMAIN lines :
    (IsData(k) /\ Count(k) = 1) =>
      /\ (k = Len(lines) /\ pc = "loop") => skip_lines = 0
      /\ (k < Len(lines) /\ IsHex(k + 1)) => fate[k + 1] # <<"payload">>
      /\ CmdOf(k).path_data = <<>>
      /\ CmdOf(k).path_segments = <<>>

\* the blend-mode names of the table, by bits 8..11 of the data word
BlendNameOf(bits) ==
  CASE bits = 0 -> "NONE" [] bits = 1 -> "SRC_OVER" [] bits = 2 -> "DST_OVER"
    [] bits = 3 -> "SRC_IN" [] bits = 4 -> "DST_IN" [] bits = 5 -> "MULTIPLY"
    [] bits = 6 -> "SCREEN" [] bits = 7 -> "DARKEN" [] bits = 8 -> "LIGHTEN"
    [] bits = 9 -> "ADDITIVE" [] bits = 10 -> "SUBTRACT" [] bits = 12 -> "SUBTRACT_LVGL"
    [] OTHER -> "0x" \o ToString(bits * 256)

\* a command word with top 4 bits 0x3, repeat count 1, register address 0x0A00
IsControlWrite(cmd) ==
  /\ Opcode(cmd.cmd_word) = 3
  /\ cmd.cmd_word.hi % 256 = 1
  /\ cmd.cmd_word.lo = 2560

\* C18: every command word with top 4 bits 0x3, repeat count 1 and register
\* address 0x0A00 is classified as a single StateWrite to the control register
\* whose details name the blend mode selected by bits 8..11 of the data word;
\* 0x30010A00 with data 0x00000100 yields SRC_OVER and is not flagged.
C18_ControlWriteNamesBlendMode ==
  \A id \in DOMAIN heap :
    IsControlWrite(heap[id]) =>
      /\ heap[id].cmd_type = "STATE"
      /\ heap[id].description = <<"write_register", "VgControl">>
      /\ heap[id].details[1]
           = <<"blend_mode", BlendNameOf((heap[id].data_word.lo \div 256) % 16)>>
      /\ (heap[id].cmd_word = W(12289, 2560) /\ heap[id].data_word = W(0, 256))
           => /\ heap[id].details = <<<<"blend_mode", "SRC_OVER">>>>
              /\ ~heap[id].is_abnormal
              /\ heap[id].abnormal_reasons = <<>>

\* 0x30010A00 0x00000100 decoded, and a control write selecting another mode
C18_Witness ==
  /\ \E id \in DOMAIN heap :
       /\ heap[id].cmd_word = W(12289, 2560) /\ heap[id].data_word = W(0, 256)
       /\ heap[id].details = <<<<"blend_mode", "SRC_OVER">>>>
  /\ \E id \in DOMAIN heap :
       /\ IsControlWrite(heap[id])
       /\ heap[id].details[1] = <<"blend_mode", "SUBTRACT_LVGL">>

\* the line of the section marker that opened the segment of line k (0 for
\* the implicit segment)
MarkerBefore(k) ==
  LET ms == {m \in 1..(k - 1) : IsMarkerAt(m)}
  IN  IF ms = {} THEN 0 ELSE CHOOSE m \in ms : \A o \in ms : o <= m

\* C19: each decoded instruction's offset equals 8 times the number of hex
\* word pairs that precede it in the input since the section marker that
\* opened its segment (or since the start of input); the first instruction
\* decoded after a section marker has offset 0.
C19_OffsetIsBytePosition ==
  \A k \in DOMAIN lines :
    IsCmd(k) =>
      /\ CmdOf(k).offset = 8 * Cardinality(HexIn(MarkerBefore(k) + 1, k - 1))
      /\ (MarkerBefore(k) > 0 /\ \A m \in (MarkerBefore(k) + 1)..(k - 1) : ~IsCmd(m))
           => CmdOf(k).offset = 0

\* ------------------------------------------- the path interpreter on its own
\* the integer numeric formats
IntegerFormats == {"S8", "S16", "S32"}

\* coordinates at and inside the limits of a format
CoordsOf(path_format) ==
  IF path_format = "S8" THEN {-128, -1, 0, 127}
  ELSE IF path_format = "S16" THEN {-32768, -1, 0, 32767}
  ELSE {-2147483647, -1, 0, 2147483647}

\* sequences of n coordinates
CoordSeqs(path_format, n) == [1..n -> CoordsOf(path_format)]

\* the opcodes the segments are built from: END, CLOSE, MOVE, HLINE
SegmentOpcodes == {0, 1, 2, 11}

\* the segments of the opcode table, each with as many coordinates as the
\* table requires
SegmentsOf(path_format) ==
  UNION {{[opcode |-> op, coords |-> cs] :
            cs \in CoordSeqs(path_format, VLC_OP_CODES[op][2])} : op \in SegmentOpcodes}

\* the sequences of at most MaxSegments segments
SegmentSeqs(path_format) ==
  UNION {[1..n -> SegmentsOf(path_format)] : n \in 0..MaxSegments}

\* one field of the byte run: little-endian, two's complement, at the field
\* width of the format
EncodeField(path_format, value) ==
  IF path_format = "S8" THEN <<(value + 256) % 256>>
  ELSE IF path_format = "S16" THEN
    LET u == (value + 65536) % 65536 IN <<u % 256, u \div 256>>
  ELSE
    LET u == IF value < 0 THEN (value + 1) + 2147483647 ELSE value
        top == (u \div 16777216) + (IF value < 0 THEN 128 ELSE 0)
    IN  <<u % 256, (u \div 256) % 256, (u \div 65536) % 256, top>>

RECURSIVE EncodeCoords(_, _)
EncodeCoords(path_format, coords) ==
  IF coords = <<>> THEN <<>>
  ELSE EncodeField(path_format, Head(coords)) \o EncodeCoords(path_format, Tail(coords))

RECURSIVE EncodeSegments(_, _)
\* the opcode field, then the operand fields, for every segment
EncodeSegments(path_format, segments) ==
  IF segments = <<>> THEN <<>>
  ELSE EncodeField(path_format, Head(segments).opcode)
       \o EncodeCoords(path_format, Head(segments).coords)
       \o EncodeSegments(path_format, Tail(segments))

\* VGLitePathParser(path_format) is handed the encoding of a segment sequence
InitRoundTrip ==
  /\ self = NewParser(FALSE, FALSE)
  /\ heap = <<>>
  /\ offset = 0
  /\ skip_lines = 0
  /\ pending_path_data = <<>>
  /\ lines = <<>>
  /\ fate = <<>>
  /\ pc = "none"
  /\ scenario = "path"
  /\ prev = [lines |-> <<>>, commands |-> <<>>]
  /\ replay = FALSE
  /\ coredump = NoCoredump
  /\ \E path_format \in IntegerFormats :
       \E input \in SegmentSeqs(path_format) :
         path_parser = [pc |-> "ready", path_format |-> path_format, input |-> input,
                        data |-> EncodeSegments(path_format, input), segments |-> <<>>]

\* path_parser._parse_bytes(data)
ParseBytes ==
  /\ path_parser.pc = "ready"
  /\ path_parser' = [path_parser EXCEPT
                       !.pc = "parsed",
                       !.segments = _parse_bytes(path_parser.path_format, path_parser.data)]
  /\ UNCHANGED <<self, heap, offset, skip_lines, pending_path_data, lines, fate, pc,
                 scenario, prev, replay, coredump>>

NextRoundTrip == ParseBytes

SpecRoundTrip == InitRoundTrip /\ [][NextRoundTrip]_vars

\* the decoded segments have the opcodes and exactly the coordinates of input
SameSegments(decoded, input) ==
  /\ Len(decoded) = Len(input)
  /\ \A k \in DOMAIN input :
       /\ decoded[k].opcode = W(0, input[k].opcode)
       /\ decoded[k].coords = [c \in DOMAIN input[k].coords |-> <<"i", input[k].coords[c]>>]

EndOnlyLast(input) == \A k \in 1..(Len(input) - 1) : input[k].opcode # 0

NoBytes == <<-1>>

\* Optional[int] of an unsigned value; None is a value that no read can return
NoInt == -1

CoreSegment(vaddr, filesz, memsz, file_offset) ==
  [vaddr |-> vaddr, filesz |-> filesz, memsz |-> memsz, offset |-> file_offset]

\* core_data is held as its length and its non-zero bytes, by file offset
CoreData(size, bytes) == [size |-> size, bytes |-> bytes]

ByteAt(core_data, i) == IF i \in DOMAIN core_data.bytes THEN core_data.bytes[i] ELSE 0

\* core_data[start:stop] for 0 <= start
Slice(core_data, start, stop) ==
  LET lo == IF start < core_data.size THEN start ELSE core_data.size
      hi == IF stop < core_data.size THEN stop ELSE core_data.size
  IN  [k \in 1..(IF hi > lo THEN hi - lo ELSE 0) |-> ByteAt(core_data, lo + k - 1)]

\* `seg.vaddr <= address < seg.vaddr + seg.filesz`
SegmentContains(seg, address) ==
  seg.vaddr <= address /\ address < seg.vaddr + seg.filesz

\* the segments for which the loop of read_memory reaches its `return`
SegmentsServing(cd, address, size) ==
  {k \in DOMAIN cd.segments :
     /\ SegmentContains(cd.segments[k], address)
     /\ cd.segments[k].offset + (address - cd.segments[k].vaddr) + size <= cd.core_data.size}

read_memory(cd, address, size) ==
  LET serving == SegmentsServing(cd, address, size)
  IN  IF serving # {}
      THEN LET seg == cd.segments[CHOOSE k \in serving : \A o \in serving : k <= o]
               off == seg.offset + (address - seg.vaddr)
           IN  Slice(cd.core_data, off, off + size)
      ELSE IF address < cd.core_data.size
      THEN Slice(cd.core_data, address, address + size)
      ELSE NoBytes

\* struct.unpack("<I", data)[0]
UnpackU32(data) == data[1] + 256 * data[2] + 65536 * data[3] + 16777216 * data[4]

read_u32(cd, address) ==
  LET data == read_memory(cd, address, 4)
  IN  IF data # NoBytes /\ data # <<>> /\ Len(data) = 4 THEN UnpackU32(data) ELSE NoInt

\* struct.unpack("<H", data[:2])[0]
UnpackU16(data) == data[1] + 256 * data[2]

read_u16(cd, address) ==
  LET data == read_memory(cd, address, 2)
  IN  IF data # NoBytes /\ data # <<>> /\ Len(data) >= 2 THEN UnpackU16(data) ELSE NoInt

\* one entry of the record of read_memory calls
Read(cd, address, size) ==
  [address |-> address, size |-> size, data |-> read_memory(cd, address, size)]

\* vg_lite_context_t field offsets
CONTEXT_OFFSETS == [rtbuffer |-> 1824, target_width |-> 1956, target_height |-> 1960]

\* vg_lite_buffer_t field offsets
BUFFER_OFFSETS ==
  [width |-> 0, height |-> 4, stride |-> 8, format |-> 14, memory |-> 20, address |-> 24]

SymbolInfo(name, address, size) == [name |-> name, address |-> address, size |-> size]

TargetBufferInfo(width, height, stride, format, address, memory, pixel_data) ==
  [width |-> width, height |-> height, stride |-> stride, format |-> format,
   address |-> address, memory |-> memory, pixel_data |-> pixel_data]

\* `x or 0`
OrZero(x) == IF x = NoInt THEN 0 ELSE x

\* parse() without the ELF image being parsed: its symbols are taken as they come
parse_ElfUnchecked(cd) ==
  IF ~cd.files.has_elftools \/ ~cd.files.elf_exists \/ ~cd.files.core_exists
  THEN [ok |-> FALSE, cd |-> cd]
  ELSE [ok |-> TRUE,
        cd |-> [cd EXCEPT
                  !.symbols = cd.files.symbols,
                  !.core_data = cd.files.core_data,
                  !.segments = IF cd.files.core_ok THEN cd.files.segments ELSE <<>>]]

\* parse(): yields [ok, cd]; files holds what is on disk: whether each file
\* exists, whether ELFFile accepts it, the symbol table of the ELF image,
\* the LOAD segments and the bytes of the snapshot
parse(cd) ==
  IF ~cd.files.has_elftools \/ ~cd.files.elf_exists \/ ~cd.files.core_exists
  THEN [ok |-> FALSE, cd |-> cd]
  ELSE IF ~cd.files.elf_ok
  THEN [ok |-> FALSE, cd |-> cd]     \* _parse_elf_symbols raised
  ELSE [ok |-> TRUE,
        cd |-> [cd EXCEPT
                  !.symbols = cd.files.symbols,
                  !.core_data = cd.files.core_data,
                  \* ELFFile(f) raising is caught inside _parse_core_segments
                  !.segments = IF cd.files.core_ok THEN cd.files.segments ELSE <<>>]]

\* `if backup_data:` and `if init_data:`
Truthy(data) == data # NoBytes /\ data # <<>>

\* the six fields of the vg_lite_buffer_t at rtbuffer_ptr: lines 398-403
ReadBufferFields(cd, rtbuffer_ptr) ==
  [width |-> read_u32(cd, rtbuffer_ptr + BUFFER_OFFSETS.width),
   height |-> read_u32(cd, rtbuffer_ptr + BUFFER_OFFSETS.height),
   stride |-> read_u32(cd, rtbuffer_ptr + BUFFER_OFFSETS.stride),
   fmt |-> read_u16(cd, rtbuffer_ptr + BUFFER_OFFSETS.format),
   memory |-> read_u32(cd, rtbuffer_ptr + BUFFER_OFFSETS.memory),
   address |-> read_u32(cd, rtbuffer_ptr + BUFFER_OFFSETS.address),
   reads |-> <<Read(cd, rtbuffer_ptr + BUFFER_OFFSETS.width, 4),
               Read(cd, rtbuffer_ptr + BUFFER_OFFSETS.height, 4),
               Read(cd, rtbuffer_ptr + BUFFER_OFFSETS.stride, 4),
               Read(cd, rtbuffer_ptr + BUFFER_OFFSETS.format, 2),
               Read(cd, rtbuffer_ptr + BUFFER_OFFSETS.memory, 4),
               Read(cd, rtbuffer_ptr + BUFFER_OFFSETS.address, 4)>>]

\* `if memory and width and height and stride:`
WantPixels(f) ==
  /\ f.memory # NoInt /\ f.memory # 0
  /\ f.width # 0 /\ f.height # 0
  /\ f.stride # NoInt /\ f.stride # 0

\* lines 405-462, given the fields f and the pixel bytes read (or not)
TargetFromFields(f, pixel_data, reads) ==
  \* `fmt & 0x3FF`, `{address:08X}` and `{memory:08X}` raise TypeError on None
  IF f.fmt = NoInt \/ f.address = NoInt \/ f.memory = NoInt
  THEN [raised |-> TRUE, info |-> None, reads |-> reads]
  ELSE [raised |-> FALSE, reads |-> reads,
        info |-> TargetBufferInfo(f.width, f.height, OrZero(f.stride), f.fmt, f.address,
                                  f.memory,
                                  IF Truthy(pixel_data) THEN pixel_data ELSE NoBytes)]

\* lines 376-395: the sizes kept by the context when rtbuffer is null
TargetFromContext(cd, s_context_addr) ==
  LET target_width == read_u32(cd, s_context_addr + CONTEXT_OFFSETS.target_width)
      target_height == read_u32(cd, s_context_addr + CONTEXT_OFFSETS.target_height)
  IN  [raised |-> FALSE,
       info |-> IF target_width # NoInt /\ target_width # 0
                   /\ target_height # NoInt /\ target_height # 0
                THEN TargetBufferInfo(target_width, target_height, 0, 0, 0, 0, NoBytes)
                ELSE None,
       reads |-> <<Read(cd, s_context_addr + CONTEXT_OFFSETS.target_width, 4),
                   Read(cd, s_context_addr + CONTEXT_OFFSETS.target_height, 4)>>]

\* lines 398-462
TargetFromBuffer(cd, f) ==
  IF f.width = NoInt \/ f.height = NoInt
  THEN [raised |-> FALSE, info |-> None, reads |-> f.reads]
  ELSE IF WantPixels(f)
  THEN TargetFromFields(f, read_memory(cd, f.memory, f.height * f.stride),
                        Append(f.reads, Read(cd, f.memory, f.height * f.stride)))
  ELSE TargetFromFields(f, NoBytes, f.reads)

\* yields [raised, info, reads]
get_target_buffer_info(cd) ==
  IF "s_context" \notin DOMAIN cd.symbols
  THEN [raised |-> FALSE, info |-> None, reads |-> <<>>]
  ELSE
  LET s_context_addr == cd.symbols["s_context"].address
      rtbuffer_ptr == read_u32(cd, s_context_addr + CONTEXT_OFFSETS.rtbuffer)
      r0 == <<Read(cd, s_context_addr + CONTEXT_OFFSETS.rtbuffer, 4)>>
      r == IF rtbuffer_ptr = NoInt \/ rtbuffer_ptr = 0
           THEN TargetFromContext(cd, s_context_addr)
           ELSE TargetFromBuffer(cd, ReadBufferFields(cd, rtbuffer_ptr))
  IN  [raised |-> r.raised, info |-> r.info, reads |-> r0 \o r.reads]

\* a ceiling of 2 MiB in the place of 1 MiB
BackupSizeCeiling_Raised == 2097152

\* `buf_size > 0x100000` of get_backup_command_buffer
BackupSizeCeiling == 1048576

\* `buf_size > 0x10000` of get_init_command_buffer
InitSizeCeiling == 65536

\* the address of a symbol that is known to be present
AddressOf(cd, name) == cd.symbols[name].address

\* yields [physical, size, data, reads]
get_backup_command_buffer(cd) ==
  IF "backup_command_buffer_klogical" \notin DOMAIN cd.symbols
     \/ "backup_command_buffer_size" \notin DOMAIN cd.symbols
  THEN [physical |-> NoInt, size |-> NoInt, data |-> NoBytes, reads |-> <<>>]
  ELSE
  LET klogical == AddressOf(cd, "backup_command_buffer_klogical")
      klogical_ptr == read_u32(cd, klogical)
      size_addr == AddressOf(cd, "backup_command_buffer_size")
      buf_size == read_u32(cd, size_addr)
      has_physical == "backup_command_buffer_physical" \in DOMAIN cd.symbols
      physical_addr == IF has_physical
                       THEN read_u32(cd, AddressOf(cd, "backup_command_buffer_physical"))
                       ELSE NoInt
      r1 == <<Read(cd, klogical, 4), Read(cd, size_addr, 4)>>
            \o (IF has_physical
                THEN <<Read(cd, AddressOf(cd, "backup_command_buffer_physical"), 4)>>
                ELSE <<>>)
  IN  IF klogical_ptr = NoInt \/ buf_size = NoInt
      THEN [physical |-> NoInt, size |-> NoInt, data |-> NoBytes, reads |-> r1]
      ELSE IF buf_size = 0 \/ buf_size > BackupSizeCeiling
      THEN [physical |-> physical_addr, size |-> buf_size, data |-> NoBytes, reads |-> r1]
      ELSE [physical |-> physical_addr, size |-> buf_size,
            data |-> read_memory(cd, klogical_ptr, buf_size),
            reads |-> Append(r1, Read(cd, klogical_ptr, buf_size))]

\* yields [size, data, reads]
get_init_command_buffer(cd) ==
  IF "init_cmd_buffer" \notin DOMAIN cd.symbols
     \/ "init_cmd_buffer_size" \notin DOMAIN cd.symbols
  THEN [size |-> NoInt, data |-> NoBytes, reads |-> <<>>]
  ELSE
  LET size_addr == AddressOf(cd, "init_cmd_buffer_size")
      buf_size == read_u32(cd, size_addr)
      r1 == <<Read(cd, size_addr, 4)>>
  IN  IF buf_size = NoInt \/ buf_size = 0 \/ buf_size > InitSizeCeiling
      THEN [size |-> NoInt, data |-> NoBytes, reads |-> r1]
      ELSE [size |-> buf_size,
            data |-> read_memory(cd, AddressOf(cd, "init_cmd_buffer"), buf_size),
            reads |-> Append(r1, Read(cd, AddressOf(cd, "init_cmd_buffer"), buf_size))]

\* the little-endian word held in data[i : i + 4], with i counted from 0
WordAt(data, i) == W(data[i + 3] + 256 * data[i + 4], data[i + 1] + 256 * data[i + 2])

\* the lines of log_text.strip().split("\n") for the text that
\* buffer_to_log_format makes of data: one line per whole 8 bytes, and one
\* empty line for an empty text
buffer_to_log_format(data) ==
  IF Len(data) < 8 THEN <<BlankLine>>
  ELSE [k \in 1..(Len(data) \div 8) |->
          HexLine(WordAt(data, 8 * (k - 1)), WordAt(data, 8 * (k - 1) + 4))]

\* a 32-bit word as an unsigned number
Unsigned(w) == w.hi * 65536 + w.lo

\* format_map of _resolve_uploaded_paths: bits 20-21 of the data word
UploadFormatOf(data_word) ==
  LET fmt_bits == (data_word.hi \div 16) % 4
  IN  CASE fmt_bits = 0 -> "S8" [] fmt_bits = 1 -> "S16"
        [] fmt_bits = 2 -> "S32" [] OTHER -> "FP32"

\* path_data[8:-8]
ActualPathBytes(path_data) == SubSeq(path_data, 9, Len(path_data) - 8)

\* the body of the loop of _resolve_uploaded_paths for one CALL command:
\* yields [cmd, reads]
ResolveCall(cd, cmd, current_path_format) ==
  LET call_data_count == Low28(cmd.cmd_word)
      path_address == Unsigned(cmd.data_word)
      path_size == call_data_count * 8
      path_data == read_memory(cd, path_address, path_size)
      header_word == WordAt(path_data, 0)
      tail_word == WordAt(path_data, Len(path_data) - 8)
      path_segments == _parse_bytes(current_path_format, ActualPathBytes(path_data))
      note(d) == [cmd |-> [cmd EXCEPT !.details = Append(@, d)],
                  reads |-> <<Read(cd, path_address, path_size)>>]
  IN  IF path_address = 0 \/ path_size = 0
      THEN [cmd |-> cmd, reads |-> <<>>]
      ELSE IF path_data = NoBytes
      THEN note(<<"unreadable", path_address>>)
      ELSE IF Len(path_data) < 16
      THEN note(<<"too_short">>)
      ELSE IF Opcode(header_word) # 4
      THEN note(<<"bad_header", header_word>>)
      ELSE IF tail_word # W(28672, 0)
      THEN note(<<"bad_trailer", tail_word>>)
      ELSE [cmd |-> [cmd EXCEPT
                       !.details = Append(@, <<"upload_path", current_path_format,
                                               Low28(header_word)>>)
                                   \o Opt(path_segments # <<>>,
                                          <<"segments", Len(path_segments)>>),
                       !.path_segments = path_segments],
            reads |-> <<Read(cd, path_address, path_size)>>]

\* _resolve_uploaded_paths from the k-th command on: yields [heap, reads]
RECURSIVE ResolveFrom(_, _, _, _, _, _)
\* the format taken from the last write of 0x0A34 of the whole list
ResolveFrom_LastWrite(cd, hp, commands, k, current_path_format, reads) ==
  IF k > Len(commands) THEN [heap |-> hp, reads |-> reads]
  ELSE
  LET cmd == hp[commands[k]]
      writes == {j \in DOMAIN commands :
                   hp[commands[j]].cmd_type = "STATE" /\ hp[commands[j]].cmd_word.lo = 2612}
      last == CHOOSE j \in writes : \A i \in writes : i <= j
      fmt == IF writes = {} THEN "FP32" ELSE UploadFormatOf(hp[commands[last]].data_word)
  IN  IF cmd.cmd_type # "CALL"
      THEN ResolveFrom(cd, hp, commands, k + 1, fmt, reads)
      ELSE LET r == ResolveCall(cd, cmd, fmt)
           IN  ResolveFrom(cd, [hp EXCEPT ![commands[k]] = r.cmd], commands, k + 1, fmt,
                           reads \o r.reads)

ResolveFrom(cd, hp, commands, k, current_path_format, reads) ==
  IF k > Len(commands) THEN [heap |-> hp, reads |-> reads]
  ELSE
  LET cmd == hp[commands[k]]
      fmt == IF cmd.cmd_type = "STATE" /\ cmd.cmd_word.lo = 2612
             THEN UploadFormatOf(cmd.data_word) ELSE current_path_format
  IN  IF cmd.cmd_type # "CALL"
      THEN ResolveFrom(cd, hp, commands, k + 1, fmt, reads)
      ELSE LET r == ResolveCall(cd, cmd, fmt)
           IN  ResolveFrom(cd, [hp EXCEPT ![commands[k]] = r.cmd], commands, k + 1, fmt,
                           reads \o r.reads)

_resolve_uploaded_paths(cd, hp, commands) == ResolveFrom(cd, hp, commands, 1, "FP32", <<>>)

\* the positions of the single-register writes of 0x0A34 in a command list
PathControlWrites(hp, commands) ==
  {j \in DOMAIN commands :
     hp[commands[j]].cmd_type = "STATE" /\ hp[commands[j]].cmd_word.lo = 2612}

\* ------------------------------------------------- read_memory on its own
\* snapshots whose byte at file offset i is 16 + i
Snapshots == {CoreData(n, [i \in 0..(n - 1) |-> 16 + i]) : n \in 0..MaxCoreBytes}

LoadSegments ==
  {CoreSegment(vaddr, filesz, filesz, off) :
     vaddr \in {0, 8}, filesz \in {2, 4}, off \in {0, 2}}

SegmentLists == UNION {[1..n -> LoadSegments] : n \in 0..MaxLoadSegments}

\* a CoredumpParser whose parse() has returned, holding some segments and
\* some snapshot bytes
InitMemory ==
  /\ self = NewParser(FALSE, FALSE)
  /\ heap = <<>>
  /\ offset = 0
  /\ skip_lines = 0
  /\ pending_path_data = <<>>
  /\ lines = <<>>
  /\ fate = <<>>
  /\ pc = "none"
  /\ scenario = "path"
  /\ prev = [lines |-> <<>>, commands |-> <<>>]
  /\ replay = FALSE
  /\ path_parser = NoPathParser
  /\ \E segments \in SegmentLists, core_data \in Snapshots :
       coredump = [pc |-> "parsed", segments |-> segments, core_data |-> core_data,
                   reads |-> <<>>]

\* one call read_memory(address, size); the call and what it returned are kept
ReadMemory ==
  /\ coredump.pc = "parsed"
  /\ coredump.reads = <<>>
  /\ \E address \in 0..(MaxCoreBytes + 4), size \in 0..4 :
       coredump' = [coredump EXCEPT
                      !.reads = Append(@, [address |-> address, size |-> size,
                                           data |-> read_memory(coredump, address, size)])]
  /\ UNCHANGED <<self, heap, offset, skip_lines, pending_path_data, lines, fate, pc,
                 scenario, prev, replay, path_parser>>

NextMemory == ReadMemory

SpecMemory == InitMemory /\ [][NextMemory]_vars

\* the LOAD segments that contain an address
Containing(address) ==
  {k \in DOMAIN coredump.segments : SegmentContains(coredump.segments[k], address)}

\* the requested range exceeds the recorded bounds: those of every segment
\* that contains the address, or, when none does, the end of the snapshot
PastBounds(address, size) ==
  IF Containing(address) # {}
  THEN \A k \in Containing(address) :
         LET seg == coredump.segments[k]
         IN  \/ address + size > seg.vaddr + seg.filesz
             \/ seg.offset + (address - seg.vaddr) + size > coredump.core_data.size
  ELSE address + size > coredump.core_data.size

\* C14: read_memory(address, size) returns exactly `size` bytes or None, never
\* fewer; it returns None when the address is in no LOAD segment and not a
\* valid flat offset, and when the requested range extends past the recorded
\* bounds.
C14_ReadIsAllOrNothing ==
  coredump.pc = "parsed" =>
    \A n \in DOMAIN coredump.reads :
      LET r == coredump.reads[n]
      IN  /\ r.data = NoBytes \/ Len(r.data) = r.size
          /\ (Containing(r.address) = {} /\ r.address >= coredump.core_data.size)
               => r.data = NoBytes
          /\ PastBounds(r.address, r.size) => r.data = NoBytes

\* C20: whenever some LOAD segment contains the address, any bytes returned
\* are the snapshot bytes at segment.file_offset + (address - segment.vaddr),
\* never the bytes at flat offset `address`.
C20_SegmentBeforeFlat ==
  coredump.pc = "parsed" =>
    \A n \in DOMAIN coredump.reads :
      LET r == coredump.reads[n]
      IN  (Containing(r.address) # {} /\ r.data # NoBytes) =>
            \E k \in Containing(r.address) :
              LET seg == coredump.segments[k]
                  off == seg.offset + (r.address - seg.vaddr)
              IN  r.data = Slice(coredump.core_data, off, off + r.size)

\* ------------------------------------------------------- parse_coredump
\* the largest count of a CALL command of the submitted buffer
MaxCallCount == 3

\* the longest byte run handed to the path interpreter on its own
MaxBytes == 8

\* where the inputs put things: the variables and the buffers by their
\* distance from the load address, the snapshot length that holds all of them
Layout ==
  [s_context |-> 0, klogical |-> 16, size |-> 20, physical |-> 24, init_size |-> 28,
   init_buffer |-> 32, backup_buffer |-> 64, path |-> 128, pixels |-> 256,
   rtbuffer |-> 2048, whole |-> 2076]

PutBytes(a, bytes) == [i \in a..(a + Len(bytes) - 1) |-> bytes[i - a + 1]]

PutU32(a, v) ==
  PutBytes(a, <<v % 256, (v \div 256) % 256, (v \div 65536) % 256, v \div 16777216>>)

RECURSIVE LineBytes(_)
LineBytes(text) ==
  IF text = <<>> THEN <<>>
  ELSE WordBytes(text[1].pair[1]) \o WordBytes(text[1].pair[2]) \o LineBytes(Tail(text))

\* 0x60000000 | count, address
CallLine(count, address) == HexLine(W(24576, count), W(0, address))

\* 0x80000000 0x00000000
NopLine == HexLine(W(32768, 0), W(0, 0))

\* the submitted buffer: a path-format write or a NOP, a CALL, then a DATA of
\* one unit or another path-format write, and one more unit
BackupLines(control, count, address, after) ==
  <<control, CallLine(count, address), after, MoveWord>>

\* the initialization buffer
InitLines == <<BlendDstOver, TargetAddress>>

\* an uploaded path of three units: header, MOVE 5 7 and END in S8, trailer
UploadedPath(header, trailer) ==
  WordBytes(header) \o <<0, 0, 0, 0>> \o <<2, 5, 7, 0, 0, 0, 0, 0>>
  \o WordBytes(trailer) \o <<0, 0, 0, 0>>

VGLITE_SYMBOLS ==
  {"backup_command_buffer_klogical", "backup_command_buffer_physical",
   "backup_command_buffer_size", "init_cmd_buffer", "init_cmd_buffer_size",
   "global_power_context", "s_context"}

\* the symbol table of the ELF image, without the names in `missing`
SymbolTable(base, missing) ==
  LET where == [backup_command_buffer_klogical |-> Layout.klogical,
                backup_command_buffer_physical |-> Layout.physical,
                backup_command_buffer_size |-> Layout.size,
                init_cmd_buffer |-> Layout.init_buffer,
                init_cmd_buffer_size |-> Layout.init_size,
                global_power_context |-> Layout.pixels,
                s_context |-> Layout.s_context]
  IN  [name \in VGLITE_SYMBOLS \ missing |-> SymbolInfo(name, base + where[name], 4)]

\* what one run is given; the fields are varied a few at a time
Nominal ==
  [has_elftools |-> TRUE, elf_exists |-> TRUE, core_exists |-> TRUE, elf_ok |-> TRUE,
   core_ok |-> TRUE, base |-> 0, size |-> Layout.whole, missing |-> {},
   backup_size |-> 32, init_size |-> 16, control |-> PathControlS8,
   call_count |-> 3, call_target |-> "path", header |-> W(16384, 1),
   trailer |-> W(28672, 0), rtbuffer |-> TRUE, parse_path |-> TRUE, after |-> Data1]

\* the address a CALL of the submitted buffer carries
CallAddress(p) ==
  CASE p.call_target = "null" -> 0
    [] p.call_target = "path" -> p.base + Layout.path
    [] OTHER -> 30000

\* the bytes of the snapshot, by file offset
SnapshotBytes(p) ==
  PutU32(Layout.klogical, p.base + Layout.backup_buffer)
  @@ PutU32(Layout.size, p.backup_size)
  @@ PutU32(Layout.physical, 12288)
  @@ PutU32(Layout.init_size, p.init_size)
  @@ PutBytes(Layout.init_buffer, LineBytes(InitLines))
  @@ PutBytes(Layout.backup_buffer,
              LineBytes(BackupLines(p.control, p.call_count, CallAddress(p), p.after)))
  @@ PutBytes(Layout.path, UploadedPath(p.header, p.trailer))
  @@ PutBytes(Layout.pixels, <<1, 2, 3, 4, 5, 6, 7, 8>>)
  @@ PutU32(Layout.s_context + CONTEXT_OFFSETS.rtbuffer,
            IF p.rtbuffer THEN p.base + Layout.rtbuffer ELSE 0)
  @@ PutU32(Layout.s_context + CONTEXT_OFFSETS.target_width, 3)
  @@ PutU32(Layout.s_context + CONTEXT_OFFSETS.target_height, 2)
  @@ PutU32(Layout.rtbuffer + BUFFER_OFFSETS.width, 1)
  @@ PutU32(Layout.rtbuffer + BUFFER_OFFSETS.height, 2)
  @@ PutU32(Layout.rtbuffer + BUFFER_OFFSETS.stride, 4)
  @@ PutBytes(Layout.rtbuffer + BUFFER_OFFSETS.format, <<4, 4>>)
  @@ PutU32(Layout.rtbuffer + BUFFER_OFFSETS.memory, p.base + Layout.pixels)
  @@ PutU32(Layout.rtbuffer + BUFFER_OFFSETS.address, 8192)

\* the two files of one run
FilesOf(p) ==
  [has_elftools |-> p.has_elftools, elf_exists |-> p.elf_exists,
   core_exists |-> p.core_exists, elf_ok |-> p.elf_ok, core_ok |-> p.core_ok,
   symbols |-> SymbolTable(p.base, p.missing),
   segments |-> <<CoreSegment(p.base, p.size, p.size, 0)>>,
   core_data |-> CoreData(p.size, SnapshotBytes(p))]

\* the environment and the two files vary
EnvironmentInputs ==
  {[Nominal EXCEPT !.has_elftools = a, !.elf_exists = b, !.core_exists = c,
                   !.elf_ok = d, !.core_ok = e, !.base = base] :
     a \in BOOLEAN, b \in BOOLEAN, c \in BOOLEAN, d \in BOOLEAN, e \in BOOLEAN,
     base \in {0, 4096}}

\* symbols are missing from the ELF image and the snapshot is cut short
SymbolInputs ==
  {[Nominal EXCEPT !.missing = m, !.size = n] :
     m \in SUBSET (VGLITE_SYMBOLS \ {"global_power_context"}),
     n \in {Layout.whole, Layout.size}}

\* the snapshot ends inside the render-target descriptor or the context
TargetInputs ==
  {[Nominal EXCEPT !.size = n, !.rtbuffer = r, !.base = base, !.core_ok = e] :
     n \in {Layout.rtbuffer + f : f \in {0, 4, 8, 12, 16, 24, 28}}
           \cup {Layout.s_context + CONTEXT_OFFSETS.target_height},
     r \in BOOLEAN, base \in {0, 4096}, e \in BOOLEAN}

\* the recorded sizes vary around the two ceilings; nothing is mapped at
\* address 0, so that a read of a whole MiB returns at once
SizeInputs ==
  {[Nominal EXCEPT !.base = 4096, !.backup_size = b, !.init_size = i] :
     b \in {0, 4, 8, 32, 1048576, 1048577},
     i \in {0, 4, 16, 65536, 65537, 1048577}}

\* the CALL of the submitted buffer and the bytes it points at vary
CallInputs ==
  {[Nominal EXCEPT !.call_count = n, !.call_target = t, !.header = h, !.trailer = u,
                   !.control = c, !.base = base, !.size = z] :
     n \in 0..MaxCallCount, t \in {"null", "path", "unmapped"},
     h \in {W(16384, 1), W(12288, 0), W(0, 0)},
     u \in {W(28672, 0), W(28672, 1), W(0, 0)},
     c \in {PathControlS8, PathControlS16, NopLine}, base \in {0, 4096},
     z \in {Layout.whole, Layout.path + 16, Layout.path + 8}}

\* the path-format writes before and after the CALL vary
FormatInputs ==
  {[Nominal EXCEPT !.control = c, !.after = a, !.base = base] :
     c \in {PathControlS8, PathControlS16, NopLine},
     a \in {Data1, PathControlS8, PathControlS16}, base \in {0, 4096}}

Inputs ==
  EnvironmentInputs \cup SymbolInputs \cup TargetInputs \cup SizeInputs \cup CallInputs
  \cup FormatInputs

\* CoredumpParser(elf_path, core_path), before parse_coredump calls parse()
InitCoredump ==
  /\ self = NewParser(FALSE, FALSE)
  /\ heap = <<>>
  /\ offset = 0
  /\ skip_lines = 0
  /\ pending_path_data = <<>>
  /\ lines = <<>>
  /\ fate = <<>>
  /\ pc = "idle"
  /\ scenario = "coredump"
  /\ prev = [lines |-> <<>>, commands |-> <<>>]
  /\ replay = FALSE
  /\ path_parser = NoPathParser
  /\ \E p \in Inputs :
       coredump = [pc |-> "start", files |-> FilesOf(p), parse_path |-> p.parse_path,
                   symbols |-> << >>, segments |-> <<>>, core_data |-> CoreData(0, << >>),
                   reads |-> <<>>, attempted |-> <<>>, target_info |-> None,
                   backup |-> None, init |-> None, all_commands |-> <<>>,
                   log_text |-> <<>>, result |-> None]

ParserUnchanged == UNCHANGED <<self, heap, offset, skip_lines, pending_path_data, lines, fate, pc>>

\* parse_coredump up to the call of analyze: lines 686-691
ParseCoredump ==
  /\ coredump.pc = "start"
  /\ LET r == parse(coredump)
     IN  coredump' = IF r.ok THEN [r.cd EXCEPT !.pc = "analyze"]
                     ELSE [r.cd EXCEPT !.pc = "returned",
                                       !.result = [commands |-> <<>>, target_info |-> None]]
  /\ ParserUnchanged
  /\ UNCHANGED <<scenario, prev, replay, path_parser>>

\* analyze, line 502
GetTargetBufferInfo ==
  /\ coredump.pc = "analyze"
  /\ LET r == get_target_buffer_info(coredump)
     IN  coredump' = [coredump EXCEPT
                        !.pc = IF r.raised THEN "raised" ELSE "backup",
                        !.target_info = r.info,
                        !.reads = @ \o r.reads,
                        !.attempted = Append(@, "target")]
  /\ ParserUnchanged
  /\ UNCHANGED <<scenario, prev, replay, path_parser>>

\* a new VGLiteCommandParser enters parse_log on the text made of data
BeginParse(data) ==
  /\ self' = NewParser(coredump.parse_path, FALSE)
  /\ offset' = 0
  /\ skip_lines' = 0
  /\ pending_path_data' = <<>>
  /\ lines' = <<>>
  /\ fate' = <<>>
  /\ pc' = "loop"
  /\ UNCHANGED heap

\* analyze, lines 505-518
GetBackupCommandBuffer ==
  /\ coredump.pc = "backup"
  /\ LET r == get_backup_command_buffer(coredump)
     IN  /\ coredump' = [coredump EXCEPT
                           !.pc = IF Truthy(r.data) THEN "backup_parse" ELSE "init",
                           !.backup = [physical |-> r.physical, size |-> r.size,
                                       data |-> r.data],
                           !.reads = @ \o r.reads,
                           !.attempted = Append(@, "backup"),
                           !.log_text = IF Truthy(r.data) THEN buffer_to_log_format(r.data)
                                        ELSE <<>>]
         /\ IF Truthy(r.data) THEN BeginParse(r.data) ELSE ParserUnchanged
  /\ UNCHANGED <<scenario, prev, replay, path_parser>>

\* analyze, lines 521-536, once parse_log has returned
ResolveUploadedPaths ==
  /\ coredump.pc = "backup_parse"
  /\ pc = "done"
  /\ LET r == _resolve_uploaded_paths(coredump, heap, self.commands)
     IN  /\ heap' = r.heap
         /\ coredump' = [coredump EXCEPT !.pc = "init",
                                         !.reads = @ \o r.reads,
                                         !.all_commands = @ \o self.commands]
  /\ pc' = "idle"
  /\ UNCHANGED <<self, offset, skip_lines, pending_path_data, lines, fate,
                 scenario, prev, replay, path_parser>>

\* analyze, lines 539-551
GetInitCommandBuffer ==
  /\ coredump.pc = "init"
  /\ LET r == get_init_command_buffer(coredump)
     IN  /\ coredump' = [coredump EXCEPT
                           !.pc = IF Truthy(r.data) THEN "init_parse" ELSE "init_done",
                           !.init = [size |-> r.size, data |-> r.data],
                           !.reads = @ \o r.reads,
                           !.attempted = Append(@, "init"),
                           !.log_text = IF Truthy(r.data) THEN buffer_to_log_format(r.data)
                                        ELSE <<>>]
         /\ IF Truthy(r.data) THEN BeginParse(r.data) ELSE ParserUnchanged
  /\ UNCHANGED <<scenario, prev, replay, path_parser>>

\* analyze, line 564
AnalyzeReturn ==
  /\ \/ coredump.pc = "init_done"
     \/ coredump.pc = "init_parse" /\ pc = "done"
  /\ coredump' = [coredump EXCEPT
                    !.pc = "returned",
                    !.result = [commands |-> coredump.all_commands,
                                target_info |-> coredump.target_info]]
  /\ ParserUnchanged
  /\ UNCHANGED <<scenario, prev, replay, path_parser>>

\* the lines of a buffer are hex pairs, or one empty line
NextCoredump ==
  \/ ParseCoredump
  \/ GetTargetBufferInfo
  \/ GetBackupCommandBuffer
  \/ EmptyLine
  \/ PayloadLine
  \/ DecodeLine
  \/ ParseLogEnd
  \/ ResolveUploadedPaths
  \/ GetInitCommandBuffer
  \/ AnalyzeReturn

SpecCoredump == InitCoredump /\ [][NextCoredump]_vars

\* ------------------------------------------------------------------ C17
\* the reads made so far of `size` bytes at the address of the symbol `name`
ReadsAt(name, size) ==
  {k \in DOMAIN coredump.reads :
     /\ name \in DOMAIN coredump.symbols
     /\ coredump.reads[k].address = AddressOf(coredump, name)
     /\ coredump.reads[k].size = size}

\* the size the snapshot records for the initialization buffer, as it was read
RecordedInitSize(k) == UnpackU32(coredump.reads[k].data)

\* the size variable of the initialization buffer was read whole
InitSizeWasRead(k) ==
  /\ k \in ReadsAt("init_cmd_buffer_size", 4)
  /\ coredump.reads[k].data # NoBytes
  /\ Len(coredump.reads[k].data) = 4

\* C17: when the size recorded for a command buffer exceeds 1 MiB (1048576),
\* get_backup_command_buffer, resp. get_init_command_buffer, returns no bytes
\* for it and makes no read_memory call for the buffer contents, and no
\* instruction is decoded from that buffer.
C17_OversizedBufferNotRead ==
  /\ (coredump.pc # "none" /\ coredump.backup # None
      /\ coredump.backup.size # NoInt /\ coredump.backup.size > 1048576)
       => /\ coredump.backup.data = NoBytes
          /\ \A k \in DOMAIN coredump.reads : coredump.reads[k].size # coredump.backup.size
          /\ coredump.pc # "backup_parse"
          /\ coredump.all_commands = <<>>
  /\ (coredump.pc # "none" /\ coredump.init # None)
       => \A k \in DOMAIN coredump.reads :
            (InitSizeWasRead(k) /\ RecordedInitSize(k) > 1048576)
              => /\ coredump.init.data = NoBytes
                 /\ coredump.init.size = NoInt
                 /\ \A j \in DOMAIN coredump.reads :
                      coredump.reads[j].size # RecordedInitSize(k)
                 /\ coredump.pc # "init_parse"

\* C17 witness: analyze has returned for a snapshot that records more than
\* 1 MiB for both buffers
C17_Witness ==
  /\ coredump.pc = "returned"
  /\ coredump.backup # None /\ coredump.backup.size = 1048577
  /\ coredump.init # None
  /\ \E k \in DOMAIN coredump.reads : InitSizeWasRead(k) /\ RecordedInitSize(k) = 1048577

\* ------------------------------------------------------------------ C16
\* C16: a resource failure in one resolution step of analyze (missing symbol,
\* unmapped address, failed field read) never raises out of analyze and
\* never prevents the remaining steps: once analyze is entered, it returns
\* after having attempted the render target, the backup buffer and the
\* initialization buffer, in that order.
C16_FailureDoesNotStopAnalyze ==
  coredump.pc # "none"
    => /\ coredump.pc # "raised"
       /\ (coredump.pc = "returned" /\ coredump.attempted # <<>>)
            => coredump.attempted = <<"target", "backup", "init">>

\* ------------------------------------------------------------------ C15
\* parse_coredump has returned ([], None) without any resolution step
ReturnedEmpty ==
  /\ coredump.pc = "returned"
  /\ coredump.result = [commands |-> <<>>, target_info |-> None]
  /\ coredump.attempted = <<>>
  /\ coredump.reads = <<>>
  /\ heap = <<>>

ParseFails ==
  \/ ~coredump.files.has_elftools
  \/ ~coredump.files.elf_exists
  \/ ~coredump.files.core_exists
  \/ ~coredump.files.elf_ok

PathsResolved == coredump.pc \in {"init", "init_parse", "init_done", "returned"}

\* the bytes a CALL command designates, as the resolver fetches them
FetchedBytes(cmd) == read_memory(coredump, Unsigned(cmd.data_word), Low28(cmd.cmd_word) * 8)

\* the bytes cannot be fetched, are shorter than header plus trailer, do not
\* start with a Data-class word or do not end, in their last 8-byte unit,
\* with a Return-class word
BadUpload(cmd) ==
  LET fetched == FetchedBytes(cmd)
  IN  \/ fetched = NoBytes
      \/ Len(fetched) < 16
      \/ Opcode(WordAt(fetched, 0)) # 4
      \/ Opcode(WordAt(fetched, Len(fetched) - 8)) # 7

\* a note of _resolve_uploaded_paths that tells why the path was not read
IsSkipNote(d) == d[1] \in {"unreadable", "too_short", "bad_header", "bad_trailer"}

\* C12: in the coredump flow, every CALL command whose fetched bytes do not
\* start with a Data-class word or do not end with a Return-class word, or
\* whose bytes cannot be fetched or are shorter than header plus trailer, has
\* no path segments attached and a descriptive note appended to its details,
\* and no error is raised.
C12_BadUploadIsNoted ==
  (coredump.pc # "none" /\ PathsResolved)
    => \A k \in DOMAIN coredump.all_commands :
         LET cmd == heap[coredump.all_commands[k]]
         IN  (cmd.cmd_type = "CALL" /\ BadUpload(cmd))
               => /\ cmd.path_segments = <<>>
                  /\ \E j \in DOMAIN cmd.details : IsSkipNote(cmd.details[j])

\* ------------------------------------------- _parse_bytes, one iteration at a time
PathFormats == {"S8", "S16", "S32", "FP32"}

\* the bytes of the runs: END, MOVE and a value outside the opcode table
RunBytes == {0, 2, 200}

ByteRuns == UNION {[1..n -> RunBytes] : n \in 0..MaxBytes}

\* `if opcode == 0x00: break`
IsEndOpcode(opcode) == opcode = W(0, 0)

\* one iteration of the `while offset < len(data)` loop, lines 55-83: yields
\* the cursor and the segments afterwards, whether the loop is left by a
\* break, and which way the iteration went
ParseBytesIteration(path_format, data, cursor, segments) ==
  LET opcode == _read_opcode(path_format, data, cursor)
      size == _get_format_size(path_format)
  IN  IF opcode = None
      THEN [offset |-> cursor, segments |-> segments, break |-> TRUE, way |-> "no_opcode"]
      ELSE IF (opcode.lo % 256) \notin DOMAIN VLC_OP_CODES
      THEN [offset |-> cursor + size, segments |-> segments, break |-> FALSE,
            way |-> "unknown"]
      ELSE LET op_info == VLC_OP_CODES[opcode.lo % 256]
               rc == ReadCoords(path_format, data, cursor + size, op_info[2], <<>>)
           IN  [offset |-> rc[2],
                segments |-> Append(segments, PathSegment(opcode, op_info[1], rc[1])),
                break |-> IsEndOpcode(opcode), way |-> "segment"]

\* VGLitePathParser(path_format)._parse_bytes(data) is entered: lines 51-52
InitBytes ==
  /\ self = NewParser(FALSE, FALSE)
  /\ heap = <<>>
  /\ offset = 0
  /\ skip_lines = 0
  /\ pending_path_data = <<>>
  /\ lines = <<>>
  /\ fate = <<>>
  /\ pc = "none"
  /\ scenario = "path"
  /\ prev = [lines |-> <<>>, commands |-> <<>>]
  /\ replay = FALSE
  /\ coredump = NoCoredump
  /\ \E path_format \in PathFormats, data \in ByteRuns :
       path_parser = [pc |-> "loop", path_format |-> path_format, data |-> data,
                      offset |-> 0, segments |-> <<>>, trail |-> <<>>]

\* an unknown opcode leaves the cursor where it is
ParseBytesIterate_Stuck ==
  /\ path_parser.pc = "loop"
  /\ path_parser.offset < Len(path_parser.data)
  /\ LET r == ParseBytesIteration(path_parser.path_format, path_parser.data,
                                  path_parser.offset, path_parser.segments)
         to == IF r.way = "unknown" THEN path_parser.offset ELSE r.offset
     IN  path_parser' = [path_parser EXCEPT
                           !.pc = IF r.break THEN "parsed" ELSE "loop",
                           !.offset = to,
                           !.segments = r.segments,
                           !.trail = Append(@, [from |-> path_parser.offset,
                                                to |-> to, way |-> r.way,
                                                count |-> Len(r.segments)])]
  /\ UNCHANGED <<self, heap, offset, skip_lines, pending_path_data, lines, fate, pc,
                 scenario, prev, replay, coredump>>

\* the loop condition holds: the body runs once
ParseBytesIterate ==
  /\ path_parser.pc = "loop"
  /\ path_parser.offset < Len(path_parser.data)
  /\ LET r == ParseBytesIteration(path_parser.path_format, path_parser.data,
                                  path_parser.offset, path_parser.segments)
     IN  path_parser' = [path_parser EXCEPT
                           !.pc = IF r.break THEN "parsed" ELSE "loop",
                           !.offset = r.offset,
                           !.segments = r.segments,
                           !.trail = Append(@, [from |-> path_parser.offset,
                                                to |-> r.offset, way |-> r.way,
                                                count |-> Len(r.segments)])]
  /\ UNCHANGED <<self, heap, offset, skip_lines, pending_path_data, lines, fate, pc,
                 scenario, prev, replay, coredump>>

\* the loop condition fails: `return segments`
ParseBytesReturn ==
  /\ path_parser.pc = "loop"
  /\ path_parser.offset >= Len(path_parser.data)
  /\ path_parser' = [path_parser EXCEPT !.pc = "parsed"]
  /\ UNCHANGED <<self, heap, offset, skip_lines, pending_path_data, lines, fate, pc,
                 scenario, prev, replay, coredump>>

NextBytes == ParseBytesIterate \/ ParseBytesReturn

SpecBytes == InitBytes /\ [][NextBytes]_vars

\* ------------------------------------------------------------------ C21
\* C21: in the segment list the path interpreter returns, for every numeric
\* format, a segment whose operation is END can only be the last element: no
\* segment is decoded from bytes that follow an END opcode.
C21_EndIsLast ==
  path_parser.pc = "parsed"
    => \A k \in DOMAIN path_parser.segments :
         path_parser.segments[k].op_name = "END" => k = Len(path_parser.segments)

\* ------------------------------------------------------------------ C22
\* the width of one field of a numeric format
FieldWidth(path_format) ==
  CASE path_format = "S8" -> 1 [] path_format = "S16" -> 2 [] OTHER -> 4

\* the number of segments before the k-th iteration
CountBefore(k) == IF k = 1 THEN 0 ELSE path_parser.trail[k - 1].count

\* the operand count the opcode table gives for a segment
TableCount(segment) == VLC_OP_CODES[segment.opcode.lo % 256][2]

UploadFormatBefore(k) ==
  LET before == {j \in PathControlWrites(heap, coredump.all_commands) : j < k}
      nearest == CHOOSE j \in before : \A i \in before : i <= j
  IN  IF before = {} THEN "FP32"
      ELSE UploadFormatOf(heap[coredump.all_commands[nearest]].data_word)

\* the CALLs of the submitted buffer whose target passed the header and trailer
\* checks
ValidatedCalls ==
  {k \in DOMAIN coredump.all_commands :
     /\ heap[coredump.all_commands[k]].cmd_type = "CALL"
     /\ \E d \in DOMAIN heap[coredump.all_commands[k]].details :
          heap[coredump.all_commands[k]].details[d][1] = "upload_path"}

\* the bytes a CALL points at, without header and trailer
CallPayload(cmd) ==
  ActualPathBytes(read_memory(coredump, Unsigned(cmd.data_word), Low28(cmd.cmd_word) * 8))

\* C23: in the coredump flow the path segments of every validated CALL of the
\* submitted buffer are those of its payload in the format of the nearest
\* single-register write of 0x0A34 that precedes the CALL in the command list
\* (FP32 without one); a write of 0x0A34 after the CALL does not count.
C23_FormatOfPrecedingWrite ==
  coredump.pc \in {"init", "init_parse", "init_done", "returned"}
    => \A k \in ValidatedCalls :
         LET cmd == heap[coredump.all_commands[k]]
         IN  /\ cmd.path_segments = _parse_bytes(UploadFormatBefore(k), CallPayload(cmd))
             /\ \E d \in DOMAIN cmd.details :
                  /\ cmd.details[d][1] = "upload_path"
                  /\ cmd.details[d][2] = UploadFormatBefore(k)

\* C23 witness: a validated CALL preceded by an S8 write and followed by an S16
\* write of 0x0A34
C23_Witness ==
  /\ coredump.pc = "returned"
  /\ \E k \in ValidatedCalls :
       /\ UploadFormatBefore(k) = "S8"
       /\ \E j \in PathControlWrites(heap, coredump.all_commands) :
            /\ j > k
            /\ UploadFormatOf(heap[coredump.all_commands[j]].data_word) = "S16"
       /\ heap[coredump.all_commands[k]].path_segments # <<>>

\* ------------------------------------------------------------------ C24
\* C24: an Image-Draw record, once appended, keeps every field through every
\* later step of the decoder (register writes, later finalizations, section
\* markers); its transform matrix does not follow later writes of the
\* decoder's current image matrix.
C24_ImageDrawsImmutable ==
  [][/\ Len(self'.image_draws) >= Len(self.image_draws)
     /\ \A k \in DOMAIN self.image_draws : self'.image_draws[k] = self.image_draws[k]]_vars

\* C24 witness: the current image matrix and blend mode were written after a
\* record was appended, and the record still holds the earlier ones
C24_Witness ==
  /\ self.parse_image
  /\ Len(self.image_draws) = 1
  /\ self.image_draws[1].matrix = IdentityMatrix
  /\ self._image_matrix # IdentityMatrix
  /\ self.image_draws[1].matrix # self._image_matrix

\* ------------------------------------------------------------------ C25
\* the instructions of the result that lie in a section of the given name at
\* the given offset, as <<section, position>>
InstructionsAt(section_name, at) ==
  {<<n, c>> \in (DOMAIN self.command_sections) \X (1..LineLimit[scenario]) :
     /\ c \in DOMAIN self.command_sections[n].commands
     /\ self.command_sections[n].name = section_name
     /\ heap[self.command_sections[n].commands[c]].offset = at}

\* C25: once a log text is parsed, for every Image-Draw record there is exactly
\* one decoded instruction that lies in a section named as the record and has
\* the record's offset, that instruction is a Data instruction with count 1,
\* and no two records have the same section name and offset.
C25_RecordTagsItsBlit ==
  pc = "done"
    => /\ \A k \in DOMAIN self.image_draws :
            LET found == InstructionsAt(self.image_draws[k].section_name,
                                        self.image_draws[k].offset)
            IN  /\ Cardinality(found) = 1
                /\ \A where \in found :
                     LET cmd == heap[self.command_sections[where[1]].commands[where[2]]]
                     IN  cmd.cmd_type = "DATA" /\ Low28(cmd.cmd_word) = 1
       /\ \A j, k \in DOMAIN self.image_draws :
            (/\ self.image_draws[j].section_name = self.image_draws[k].section_name
             /\ self.image_draws[j].offset = self.image_draws[k].offset) => j = k

\* ------------------------------------------------------------------ C26
\* this step processes a line that is not empty, is no section marker, no
\* metadata and no idle-register line, and holds no hex word pair
ProcessesJunkLine ==
  /\ pc = "loop"
  /\ Len(lines') = Len(lines) + 1
  /\ LET line == lines'[Len(lines')]
     IN  /\ ~IsBlank(line)
         /\ ~IsMarker(line)
         /\ ~IsMeta(line)
         /\ ~IsIdle(line)
         /\ line.pair = NoTuple

\* C26: processing a line without a hex word pair (and that is not empty, no
\* marker, no metadata, no idle-register line) leaves the offset cursor, the
\* pending-skip counter, the pending payload, the register context and the
\* instruction list as they were, also while a payload skip is pending.
C26_JunkLineChangesNothing ==
  [][ProcessesJunkLine
       => /\ offset' = offset
          /\ skip_lines' = skip_lines
          /\ pending_path_data' = pending_path_data
          /\ self' = self
          /\ heap' = heap]_vars

\* ------------------------------------------------------------------ C27
\* parse_log on a log text, or the path interpreter on a byte run
InitTerminates == Init \/ InitBytes

NextTerminates ==
  \/ ParseLogBegin
  \/ EmptyLine
  \/ SectionMarker
  \/ SectionMeta
  \/ IdleReg
  \/ PayloadLine
  \/ UnparsedLine
  \/ DecodeLine
  \/ ParseLogEnd
  \/ ParseBytesIterate
  \/ ParseBytesReturn

SpecTerminates == InitTerminates /\ [][NextTerminates]_vars

\* neither loop is over
InsideALoop == pc = "loop" \/ path_parser.pc = "loop"

\* what is left to do: the lines not yet taken and whether parse_log has
\* returned, or the bytes behind the cursor and whether the interpreter has
\* returned
Remaining ==
  IF pc = "loop" THEN 2 * (LineLimit[scenario] - Len(lines)) + 1
  ELSE IF path_parser.pc = "loop"
  THEN 2 * (Len(path_parser.data) + 4 - path_parser.offset) + 1
  ELSE 0

\* every line that may come next is taken by a branch of the loop of parse_log
EveryLineHasABranch ==
  pc = "loop"
    => \A line \in NextLines :
         \/ IsBlank(line)
         \/ IsMarker(line)
         \/ IsMeta(line)
         \/ IsIdle(line)
         \/ IsCommandCandidate(line) /\ skip_lines >= 0

\* inside a loop every line finds its branch, and every step brings the end
\* nearer
RunsToCompletion ==
  /\ []EveryLineHasABranch
  /\ [][InsideALoop => (Remaining' < Remaining /\ Remaining' >= 0)]_vars

\* a step of parse_log takes exactly the next line, or none
TakesNextLineOrNone ==
  \/ lines' = lines /\ fate' = fate
  \/ lines = <<>> /\ lines' = <<>>
  \/ /\ Len(lines') = Len(lines) + 1
     /\ Len(fate') = Len(fate) + 1
     /\ SubSeq(lines', 1, Len(lines)) = lines
     /\ SubSeq(fate', 1, Len(fate)) = fate

\* this step is one iteration of the loop of the path interpreter
IteratesOverBytes ==
  /\ path_parser.pc = "loop"
  /\ Len(path_parser'.trail) = Len(path_parser.trail) + 1

\* C27 as stated: parse_log and every path interpretation end; every line is
\* taken once, the pending-skip counter is never negative, and every
\* iteration over a byte run moves the cursor forward by one field width or
\* more.
C27_Original ==
  /\ [](skip_lines >= 0 /\ Len(fate) = Len(lines))
  /\ [][TakesNextLineOrNone]_vars
  /\ [][IteratesOverBytes
          => path_parser'.offset
               >= path_parser.offset + FieldWidth(path_parser.path_format)]_vars
  /\ RunsToCompletion

\* C27: parse_log and every path interpretation end; every line is taken
\* once, the pending-skip counter is never negative, and every iteration over
\* a byte run either leaves the loop or moves the cursor forward by one field
\* width or more, in every numeric format.
C27_Terminates ==
  /\ [](skip_lines >= 0 /\ Len(fate) = Len(lines))
  /\ [][TakesNextLineOrNone]_vars
  /\ [][IteratesOverBytes
          => \/ path_parser'.pc = "parsed"
             \/ path_parser'.offset
                  >= path_parser.offset + FieldWidth(path_parser.path_format)]_vars
  /\ RunsToCompletion

\* C27 witness: a run of unknown opcodes that ends inside an opcode field was
\* interpreted to its end; the last iteration left the cursor in place
C27_Witness ==
  /\ path_parser.pc = "parsed"
  /\ "trail" \in DOMAIN path_parser
  /\ Len(path_parser.trail) >= 2
  /\ \A k \in DOMAIN path_parser.trail :
       IF k < Len(path_parser.trail) THEN path_parser.trail[k].way = "unknown"
       ELSE /\ path_parser.trail[k].way = "no_opcode"
            /\ path_parser.trail[k].to = path_parser.trail[k].from

\* ------------------------------------------------------------------ C28
\* C28: every decoded Data instruction whose payload is refused (its count is
\* above the ceiling of the payload skip, 0x1000) has the anomaly flag set,
\* with a reason about the size of the data.
C28_RefusedDataIsAbnormal ==
  \A k \in DOMAIN fate :
    (IsData(k) /\ Count(k) > 4096)
      => /\ CmdOf(k).is_abnormal
         /\ \E r \in DOMAIN CmdOf(k).abnormal_reasons :
              CmdOf(k).abnormal_reasons[r][1] = "data_too_large"

\* ------------------------------------------------------------------ C29
\* the component a register of the register map is named after
ImageMatrixComponent ==
  ("VgImageMatrix0" :> 0) @@ ("VgImageMatrix1" :> 1) @@ ("VgImageMatrix2" :> 2) @@
  ("VgImageMatrix3" :> 3) @@ ("VgImageMatrix4" :> 4) @@ ("VgImageMatrix5" :> 5) @@
  ("VgImageMatrix6" :> 6) @@ ("VgImageMatrix7" :> 7)

\* this step decodes a single-register write
DecodesStateWrite ==
  /\ pc = "loop"
  /\ Len(fate') = Len(fate) + 1
  /\ fate'[Len(fate')][1] = "command"
  /\ heap'[fate'[Len(fate')][2]].cmd_type = "STATE"

\* the instruction this step decodes
Decoded == heap'[fate'[Len(fate')][2]]

\* C29: with image tracking enabled, a single write to the register the
\* register map names VgImageMatrix k sets component k of the image matrix to
\* the float the data word encodes and leaves the other components alone; a
\* write to 0x0A34 leaves the whole matrix alone.
C29_MatrixRegisterSetsItsComponent ==
  [][(DecodesStateWrite /\ self.parse_image)
       => LET address == Decoded.cmd_word.lo
              name == RegName(address)
          IN  /\ name \in DOMAIN ImageMatrixComponent
                   => self'._image_matrix
                        = [self._image_matrix EXCEPT
                             ![ImageMatrixComponent[name] + 1] = Float32(Decoded.data_word)]
              /\ address = 2612 => self'._image_matrix = self._image_matrix]_vars

\* ------------------------------------------------------------------ C30
\* the instruction lists of the sections from the n-th on, one after another
RECURSIVE SectionCommandsFrom(_)
SectionCommandsFrom(n) ==
  IF n > Len(self.command_sections) THEN <<>>
  ELSE self.command_sections[n].commands \o SectionCommandsFrom(n + 1)

IsFlagged(id) == heap[id].is_abnormal

\* C30: whenever parse_log has returned, also on a second call on the same
\* instance, `commands` is the concatenation of the sections' instruction
\* lists and no stored section is empty, `abnormal_commands` is the flagged
\* subsequence of `commands`, each section's abnormal list is the flagged
\* subsequence of its instructions, and an instruction is flagged exactly when
\* it has a reason.
C30_ResultListsConsistent ==
  pc = "done"
    => /\ self.commands = SectionCommandsFrom(1)
       /\ \A n \in DOMAIN self.command_sections :
            /\ self.command_sections[n].commands # <<>>
            /\ self.command_sections[n].abnormal_commands
                 = SelectSeq(self.command_sections[n].commands, IsFlagged)
       /\ self.abnormal_commands = SelectSeq(self.commands, IsFlagged)
       /\ \A k \in DOMAIN self.commands :
            heap[self.commands[k]].is_abnormal
              <=> heap[self.commands[k]].abnormal_reasons # <<>>

====
